---- MODULE Spec2Model ----
(***************************************************************************)
(* Timebar: the countdown/stopwatch timer of src/unnamed/part_001 (the     *)
(* main window script) and the time codec it shares with src/src/          *)
(* settings.ts (the preset editor).                                        *)
(*                                                                         *)
(* Texts are sequences of one-character strings.  The timer's state is the *)
(* module-level `state` object, the interval handle, the #time-input       *)
(* elements of the document and the pending timeouts.  Every handler is an *)
(* operator from a state record to a state record, composed as the code    *)
(* composes its calls; an action applies one handler to the variables.     *)
(* The settings are the record of the store, the colour properties of the  *)
(* document, the tray menu and the preset editor's list and inputs.  Each  *)
(* concern has its own specification over the same variables: Spec (the    *)
(* timer), AutoClearSpec, CodecSpec, EditorSpec, PrefsSpec, KeySpec,       *)
(* ColorSpec, TraySpec and DynamicSpec.                                    *)
(***************************************************************************)
EXTENDS Integers, Sequences, FiniteSets, TLC

VARIABLES
  mode,            \* state.mode
  isRunning,       \* state.isRunning
  currentTime,     \* state.currentTime
  totalTime,       \* state.totalTime
  isEditMode,      \* state.isEditMode
  intervalId,      \* the module's interval handle, or null
  liveIntervals,   \* handles of the repeating timers the window holds
  inputs,          \* values of the #time-input elements, in document order
  timerDisplay,    \* timerDisplay.textContent
  timerComplete,   \* the container carries the class timer-complete
  clearTimeouts,   \* pending 3000 ms timeouts of onTimerComplete
  keyTimeouts,     \* pending 10 ms timeouts of the input's key handler
  notified,        \* playNotificationSound calls made by the latest handler
  run,             \* history: the uninterrupted countdown run in progress
  cIn,             \* codec check: the input under test
  cOut,            \* codec check: the results computed for cIn
  press,           \* history: the key press being handled, with its timeouts
  store,           \* the "settings" record of settings.json
  css,             \* the colour properties of the document, theme class
  trayMenu,        \* presets of the latest rebuild_tray_menu call
  presetEvents,    \* presets-updated events emitted and not yet delivered
  editorOpen,      \* the preset editor window is open
  presets,         \* the editor's preset list (seconds of each preset)
  presetInputs,    \* values of the editor's .preset-input elements
  saving,          \* a savePresets call waiting for the store
  pEvent,          \* history: a startup, theme change or refusal just made
  colorUpdates     \* updateDynamicColor calls waiting for the store, followed
                   \* where the theme can be "dynamic" (DynamicSpec)

timerVars == <<mode, isRunning, currentTime, totalTime, isEditMode, intervalId,
               liveIntervals, inputs, timerDisplay, timerComplete,
               clearTimeouts, keyTimeouts, notified, run>>
codecVars == <<cIn, cOut>>
prefsVars == <<store, css, trayMenu, presetEvents, editorOpen, presets,
               presetInputs, saving, pEvent, colorUpdates>>
vars == <<timerVars, codecVars, press, prefsVars>>

----------------------------------------------------------------------------
(* Bounds of the model *)
MaxTicks == 2
MaxInputs == 2
MaxKeyTimeouts == 1
MaxClearTimeouts == 1
CodecMaxHours == 100

(* Program constants *)
null == -1
COUNTDOWN == "countdown"
STOPWATCH == "stopwatch"
DefaultTime == 180

----------------------------------------------------------------------------
(* Text primitives *)
Digits == <<"0", "1", "2", "3", "4", "5", "6", "7", "8", "9">>

IsDigit(c) == \E i \in 1..10 : Digits[i] = c

DigitValue(c) == CHOOSE d \in 0..9 : Digits[d + 1] = c

Max(a, b) == IF a >= b THEN a ELSE b

RECURSIVE toString(_)
toString(n) ==
  IF n < 10 THEN <<Digits[n + 1]>>
  ELSE toString(n \div 10) \o <<Digits[(n % 10) + 1]>>

RECURSIVE padStart2(_)
padStart2(s) == IF Len(s) >= 2 THEN s ELSE padStart2(<<"0">> \o s)

RECURSIVE parseInt(_)
parseInt(s) ==
  IF Len(s) = 0 THEN 0
  ELSE 10 * parseInt(SubSeq(s, 1, Len(s) - 1)) + DigitValue(s[Len(s)])

RECURSIVE trimStart(_)
trimStart(s) == IF Len(s) > 0 /\ s[1] = " " THEN trimStart(Tail(s)) ELSE s

RECURSIVE trimEnd(_)
trimEnd(s) ==
  IF Len(s) > 0 /\ s[Len(s)] = " " THEN trimEnd(SubSeq(s, 1, Len(s) - 1)) ELSE s

trim(s) == trimEnd(trimStart(s))

(* /^(\d{1,2}):(\d{2}):(\d{2})$/ *)
matchHMS(t) ==
  LET n == Len(t) IN
  /\ n \in {7, 8}
  /\ t[n - 2] = ":"
  /\ t[n - 5] = ":"
  /\ \A i \in 1..n : i \notin {n - 2, n - 5} => IsDigit(t[i])

(* /^(\d{1,2}):(\d{2})$/ *)
matchMS(t) ==
  LET n == Len(t) IN
  /\ n \in {4, 5}
  /\ t[n - 2] = ":"
  /\ \A i \in 1..n : i # n - 2 => IsDigit(t[i])

(* value.replace(/[^0-9:]/g, "") *)
filterInput(t) == SelectSeq(t, LAMBDA c : IsDigit(c) \/ c = ":")

----------------------------------------------------------------------------
(* The time codec *)

parseTimeInputMinutesChecked(input) ==
  LET trimmed == trim(input)
      n == Len(trimmed)
  IN IF matchHMS(trimmed)
     THEN LET hours == parseInt(SubSeq(trimmed, 1, n - 6))
              minutes == parseInt(SubSeq(trimmed, n - 4, n - 3))
              seconds == parseInt(SubSeq(trimmed, n - 1, n))
              totalSeconds == hours * 3600 + minutes * 60 + seconds
          IN IF minutes >= 60 \/ seconds >= 60 THEN null
             ELSE IF totalSeconds = 0 THEN null
             ELSE totalSeconds
     ELSE IF matchMS(trimmed)
     THEN LET minutes == parseInt(SubSeq(trimmed, 1, n - 3))
              seconds == parseInt(SubSeq(trimmed, n - 1, n))
              totalSeconds == minutes * 60 + seconds
          IN IF minutes >= 60 \/ seconds >= 60 THEN null
             ELSE IF totalSeconds = 0 THEN null
             ELSE totalSeconds
     ELSE null

parseTimeInputZeroAccepted(input) ==
  LET trimmed == trim(input)
      n == Len(trimmed)
  IN IF matchHMS(trimmed)
     THEN LET hours == parseInt(SubSeq(trimmed, 1, n - 6))
              minutes == parseInt(SubSeq(trimmed, n - 4, n - 3))
              seconds == parseInt(SubSeq(trimmed, n - 1, n))
          IN IF minutes >= 60 \/ seconds >= 60 THEN null
             ELSE hours * 3600 + minutes * 60 + seconds
     ELSE IF matchMS(trimmed)
     THEN LET minutes == parseInt(SubSeq(trimmed, 1, n - 3))
              seconds == parseInt(SubSeq(trimmed, n - 1, n))
          IN IF seconds >= 60 THEN null
             ELSE minutes * 60 + seconds
     ELSE null

parseTimeInput(input) ==
  LET trimmed == trim(input)
      n == Len(trimmed)
  IN IF matchHMS(trimmed)
     THEN LET hours == parseInt(SubSeq(trimmed, 1, n - 6))
              minutes == parseInt(SubSeq(trimmed, n - 4, n - 3))
              seconds == parseInt(SubSeq(trimmed, n - 1, n))
              totalSeconds == hours * 3600 + minutes * 60 + seconds
          IN IF minutes >= 60 \/ seconds >= 60 THEN null
             ELSE IF hours < 0 \/ minutes < 0 \/ seconds < 0 THEN null
             ELSE IF totalSeconds = 0 THEN null
             ELSE totalSeconds
     ELSE IF matchMS(trimmed)
     THEN LET minutes == parseInt(SubSeq(trimmed, 1, n - 3))
              seconds == parseInt(SubSeq(trimmed, n - 1, n))
              totalSeconds == minutes * 60 + seconds
          IN IF seconds >= 60 THEN null
             ELSE IF minutes < 0 \/ seconds < 0 THEN null
             ELSE IF totalSeconds = 0 THEN null
             ELSE totalSeconds
     ELSE null

parseHHMMSSUnchecked(input) ==
  LET trimmed == trim(input)
      n == Len(trimmed)
  IN IF Len(trimmed) = 0 THEN null
     ELSE IF ~matchHMS(trimmed) THEN null
     ELSE LET hours == parseInt(SubSeq(trimmed, 1, n - 6))
              minutes == parseInt(SubSeq(trimmed, n - 4, n - 3))
              seconds == parseInt(SubSeq(trimmed, n - 1, n))
              totalSeconds == hours * 3600 + minutes * 60 + seconds
          IN IF totalSeconds = 0 THEN null ELSE totalSeconds

parseHHMMSS(input) ==
  LET trimmed == trim(input)
      n == Len(trimmed)
  IN IF Len(trimmed) = 0 THEN null
     ELSE IF ~matchHMS(trimmed) THEN null
     ELSE LET hours == parseInt(SubSeq(trimmed, 1, n - 6))
              minutes == parseInt(SubSeq(trimmed, n - 4, n - 3))
              seconds == parseInt(SubSeq(trimmed, n - 1, n))
              totalSeconds == hours * 3600 + minutes * 60 + seconds
          IN IF minutes >= 60 \/ seconds >= 60 \/ hours < 0 \/ minutes < 0
                \/ seconds < 0
             THEN null
             ELSE IF totalSeconds = 0 THEN null ELSE totalSeconds

formatSecondsToHHMMSS(totalSeconds) ==
  LET hours == totalSeconds \div 3600
      minutes == (totalSeconds % 3600) \div 60
      seconds == totalSeconds % 60
  IN padStart2(toString(hours)) \o <<":">> \o padStart2(toString(minutes))
       \o <<":">> \o padStart2(toString(seconds))

(* parts.join(", ") *)
RECURSIVE join(_)
join(parts) ==
  IF Len(parts) = 0 THEN <<>>
  ELSE IF Len(parts) = 1 THEN parts[1]
  ELSE parts[1] \o <<",", " ">> \o join(Tail(parts))

generateLabelPlural(seconds) ==
  LET hours == seconds \div 3600
      minutes == (seconds % 3600) \div 60
      secs == seconds % 60
      a == IF hours > 0
           THEN <<toString(hours) \o <<" ", "h", "o", "u", "r", "s">>>>
           ELSE <<>>
      b == IF minutes > 0
           THEN Append(a, toString(minutes)
                            \o <<" ", "m", "i", "n", "u", "t", "e", "s">>)
           ELSE a
      c == IF secs > 0 \/ Len(b) = 0
           THEN Append(b, toString(secs)
                            \o <<" ", "s", "e", "c", "o", "n", "d", "s">>)
           ELSE b
  IN join(c)

(* The label savePresets gives a preset *)
generateLabel(seconds) ==
  LET hours == seconds \div 3600
      minutes == (seconds % 3600) \div 60
      secs == seconds % 60
      a == IF hours > 0
           THEN <<IF hours = 1 THEN <<"1", " ", "h", "o", "u", "r">>
                  ELSE toString(hours) \o <<" ", "h", "o", "u", "r", "s">>>>
           ELSE <<>>
      b == IF minutes > 0
           THEN Append(a, IF minutes = 1
                          THEN <<"1", " ", "m", "i", "n", "u", "t", "e">>
                          ELSE toString(minutes)
                                 \o <<" ", "m", "i", "n", "u", "t", "e", "s">>)
           ELSE a
      c == IF secs > 0 \/ Len(b) = 0
           THEN Append(b, IF secs = 1
                          THEN <<"1", " ", "s", "e", "c", "o", "n", "d">>
                          ELSE toString(secs)
                                 \o <<" ", "s", "e", "c", "o", "n", "d", "s">>)
           ELSE b
  IN join(c)

(* The value enterEditMode gives the new input *)
seedText(time) ==
  LET hours == time \div 3600
      minutes == (time % 3600) \div 60
      seconds == time % 60
  IN padStart2(toString(hours)) \o <<":">> \o padStart2(toString(minutes))
       \o <<":">> \o padStart2(toString(seconds))

displayTextNoHours(time) ==
  LET minutes == time \div 60
      seconds == time % 60
  IN padStart2(toString(minutes)) \o <<":">> \o padStart2(toString(seconds))

displayTextUnpadded(time) ==
  LET hours == time \div 3600
      minutes == (time % 3600) \div 60
      seconds == time % 60
  IN IF hours > 0
     THEN toString(hours) \o <<":">> \o padStart2(toString(minutes))
            \o <<":">> \o padStart2(toString(seconds))
     ELSE toString(minutes) \o <<":">> \o padStart2(toString(seconds))

(* The text updateDisplay writes to timerDisplay *)
displayText(time) ==
  LET hours == time \div 3600
      minutes == (time % 3600) \div 60
      seconds == time % 60
  IN IF hours > 0
     THEN padStart2(toString(hours)) \o <<":">> \o padStart2(toString(minutes))
            \o <<":">> \o padStart2(toString(seconds))
     ELSE padStart2(toString(minutes)) \o <<":">> \o padStart2(toString(seconds))

----------------------------------------------------------------------------
(* The timer: handlers as operators on the state record *)

S == [mode |-> mode, isRunning |-> isRunning, currentTime |-> currentTime,
      totalTime |-> totalTime, isEditMode |-> isEditMode,
      intervalId |-> intervalId, liveIntervals |-> liveIntervals,
      inputs |-> inputs, timerDisplay |-> timerDisplay,
      timerComplete |-> timerComplete, clearTimeouts |-> clearTimeouts,
      keyTimeouts |-> keyTimeouts, notified |-> 0, shown |-> 0]

(* window.setInterval returns a handle no live timer has *)
setInterval(s) == CHOOSE id \in 1..(Cardinality(s.liveIntervals) + 1) :
                    id \notin s.liveIntervals

updateDisplay(s) == [s EXCEPT !.timerDisplay = displayText(s.currentTime)]

(* showTimerWindow asks the window to show, unminimize, take the focus and *)
(* stay on top: one request to bring it to the foreground.  The field     *)
(* shown counts the requests of the handler under way; no handler reads   *)
(* it.                                                                    *)
showTimerWindow(s) == [s EXCEPT !.shown = @ + 1]

pauseTimerRewinds(s) ==
  IF ~s.isRunning THEN s
  ELSE [s EXCEPT !.isRunning = FALSE,
                 !.liveIntervals = IF s.intervalId # null
                                   THEN @ \ {s.intervalId} ELSE @,
                 !.intervalId = null,
                 !.currentTime = IF s.mode = COUNTDOWN THEN s.totalTime ELSE 0]

pauseTimer(s) ==
  IF ~s.isRunning THEN s
  ELSE [s EXCEPT !.isRunning = FALSE,
                 !.liveIntervals = IF s.intervalId # null
                                   THEN @ \ {s.intervalId} ELSE @,
                 !.intervalId = null]

stopTimer(s) == pauseTimer(s)

startTimerUnguarded(s) ==
  LET id == setInterval(s)
  IN [s EXCEPT !.isRunning = TRUE, !.intervalId = id,
               !.liveIntervals = @ \cup {id}]

startTimer(s) ==
  IF s.isRunning THEN s
  ELSE LET id == setInterval(s)
       IN [s EXCEPT !.isRunning = TRUE, !.intervalId = id,
                    !.liveIntervals = @ \cup {id}]

toggleTimer(s) == IF s.isRunning THEN pauseTimer(s) ELSE startTimer(s)

resetTimerKeepsComplete(s) ==
  LET a == stopTimer(s)
      b == [a EXCEPT !.currentTime = IF a.mode = COUNTDOWN
                                     THEN a.totalTime ELSE 0]
  IN updateDisplay(b)

resetTimer(s) ==
  LET a == stopTimer(s)
      b == [a EXCEPT !.timerComplete = FALSE,
                     !.currentTime = IF a.mode = COUNTDOWN
                                     THEN a.totalTime ELSE 0]
  IN updateDisplay(b)

(* document.getElementById("time-input") is the first such element *)
exitEditMode(s, save) ==
  LET a == IF save /\ Len(s.inputs) > 0
           THEN LET parsedTime == parseTimeInput(s.inputs[1])
                IN IF parsedTime # null
                   THEN [s EXCEPT !.currentTime = parsedTime,
                                  !.totalTime = parsedTime]
                   ELSE s
           ELSE s
      b == [a EXCEPT !.inputs = IF Len(@) > 0 THEN Tail(@) ELSE @,
                     !.isEditMode = FALSE]
  IN updateDisplay(b)

(* insertBefore(input, timerDisplay) puts the new input after the others *)
enterEditMode(s) ==
  LET a == IF s.isRunning THEN pauseTimer(s) ELSE s
  IN [a EXCEPT !.isEditMode = TRUE,
               !.inputs = Append(@, seedText(a.currentTime))]

onTimerCompleteNoAutoClear(s) ==
  LET a == stopTimer(s)
  IN [a EXCEPT !.notified = @ + 1, !.timerComplete = TRUE]

onTimerComplete(s) ==
  LET a == stopTimer(s)
  IN [a EXCEPT !.notified = @ + 1, !.timerComplete = TRUE,
               !.clearTimeouts = @ + 1]

intervalCallbackNoClamp(s) ==
  updateDisplay(
    IF s.mode = COUNTDOWN
    THEN LET a == [s EXCEPT !.currentTime = @ - 1]
         IN IF a.currentTime = 0 THEN onTimerComplete(a) ELSE a
    ELSE [s EXCEPT !.currentTime = @ + 1])

intervalCallbackNoComplete(s) ==
  updateDisplay(
    IF s.mode = COUNTDOWN
    THEN [s EXCEPT !.currentTime = Max(0, @ - 1)]
    ELSE [s EXCEPT !.currentTime = @ + 1])

(* The callback startTimer hands to setInterval *)
intervalCallback(s) ==
  updateDisplay(
    IF s.mode = COUNTDOWN
    THEN LET a == [s EXCEPT !.currentTime = Max(0, @ - 1)]
         IN IF a.currentTime = 0 THEN onTimerComplete(a) ELSE a
    ELSE [s EXCEPT !.currentTime = @ + 1])

toggleModeTargetReset(s) ==
  LET a == IF s.isEditMode THEN exitEditMode(s, FALSE) ELSE s
      b == stopTimer(a)
      c == [b EXCEPT !.mode = IF @ = COUNTDOWN THEN STOPWATCH ELSE COUNTDOWN]
      d == [c EXCEPT !.currentTime = 0, !.totalTime = 0]
  IN updateDisplay(d)

toggleMode(s) ==
  LET a == IF s.isEditMode THEN exitEditMode(s, FALSE) ELSE s
      b == stopTimer(a)
      c == [b EXCEPT !.mode = IF @ = COUNTDOWN THEN STOPWATCH ELSE COUNTDOWN]
      d == [c EXCEPT !.currentTime = IF c.mode = COUNTDOWN
                                     THEN c.totalTime ELSE 0]
  IN updateDisplay(d)

setTimeKeepsRunning(s, seconds) ==
  LET a == IF s.isEditMode THEN exitEditMode(s, FALSE) ELSE s
      c == [a EXCEPT !.currentTime = seconds, !.totalTime = seconds]
  IN showTimerWindow(updateDisplay(c))

setTime(s, seconds) ==
  LET a == IF s.isEditMode THEN exitEditMode(s, FALSE) ELSE s
      b == stopTimer(a)
      c == [b EXCEPT !.currentTime = seconds, !.totalTime = seconds]
  IN showTimerWindow(updateDisplay(c))

(* The keydown listener enterEditMode puts on each input *)
inputKeydown(s, key) ==
  IF key = "Enter" THEN exitEditMode(s, TRUE)
  ELSE IF key = "Escape" THEN exitEditMode(s, FALSE)
  ELSE IF key = "PageUp" \/ key = "PageDown"
  THEN [exitEditMode(s, FALSE) EXCEPT !.keyTimeouts = Append(@, key)]
  ELSE s

(* The keydown listener of the document *)
documentKeydown(s, code) ==
  IF code = "PageUp" THEN toggleTimer(s)
  ELSE IF code = "PageDown" THEN resetTimer(s)
  ELSE IF code = "End" THEN showTimerWindow(s)
  ELSE s

(* The callback the input's listener hands to setTimeout *)
keyTimeoutCallback(s) ==
  LET key == Head(s.keyTimeouts)
      a == [s EXCEPT !.keyTimeouts = Tail(@)]
  IN IF key = "PageUp" THEN toggleTimer(a)
     ELSE IF key = "PageDown" THEN resetTimer(a)
     ELSE a

(* The callback onTimerComplete hands to setTimeout *)
clearTimeoutCallback(s) ==
  [s EXCEPT !.timerComplete = FALSE, !.clearTimeouts = @ - 1]

----------------------------------------------------------------------------
(* The settings: the store record, the themes, the tray menu and the       *)
(* preset editor of src/src/settings.ts.  A preset is modelled by its      *)
(* seconds; its label is not read by any handler.  The fields              *)
(* startPauseKey and resetKey of the record are written with the same      *)
(* constants by every writer and are left out.                             *)

(* A property a record does not have, and the value undefined *)
absent == "<absent>"

(* JavaScript truthiness of a string-valued property *)
truthy(v) == v # absent /\ v # ""

NoPress == [key |-> "none", before |-> FALSE]

DEFAULT_PRESETS == <<180, 300, 1500>>

themes ==
  [id \in {"blue", "green", "purple", "orange", "red", "dark", "light",
           "dynamic", "transparent"} |->
    CASE id = "blue" ->
           [barColor |-> "linear-gradient(90deg, #1e3c72 0%, #2a5298 50%, #7e22ce 100%)",
            backgroundColor |-> "transparent", textColor |-> "#ffffff"]
      [] id = "green" ->
           [barColor |-> "linear-gradient(90deg, #134e4a 0%, #16a34a 50%, #84cc16 100%)",
            backgroundColor |-> "transparent", textColor |-> "#ffffff"]
      [] id = "purple" ->
           [barColor |-> "linear-gradient(90deg, #667eea 0%, #764ba2 100%)",
            backgroundColor |-> "transparent", textColor |-> "#ffffff"]
      [] id = "orange" ->
           [barColor |-> "linear-gradient(90deg, #dc2626 0%, #f97316 50%, #fbbf24 100%)",
            backgroundColor |-> "transparent", textColor |-> "#ffffff"]
      [] id = "red" ->
           [barColor |-> "linear-gradient(90deg, #7f1d1d 0%, #dc2626 50%, #f87171 100%)",
            backgroundColor |-> "transparent", textColor |-> "#ffffff"]
      [] id = "dark" ->
           [barColor |-> "linear-gradient(90deg, #0f172a 0%, #1e293b 50%, #334155 100%)",
            backgroundColor |-> "transparent", textColor |-> "#e2e8f0"]
      [] id = "light" ->
           [barColor |-> "linear-gradient(90deg, #0ea5e9 0%, #38bdf8 50%, #7dd3fc 100%)",
            backgroundColor |-> "transparent", textColor |-> "#ffffff"]
      [] id = "dynamic" ->
           [barColor |-> "dynamic",
            backgroundColor |-> "transparent", textColor |-> "#ffffff"]
      [] id = "transparent" ->
           [barColor |-> "rgba(255, 255, 255, 0.25)",
            backgroundColor |-> "transparent", textColor |-> "#ffffff"]]

(* Property names every object literal inherits from Object.prototype *)
ObjectPrototypeKeys ==
  {"constructor", "toString", "toLocaleString", "valueOf", "hasOwnProperty",
   "isPrototypeOf", "propertyIsEnumerable", "__proto__"}

(* themes[themeName]: the table is an object literal, so the lookup also  *)
(* finds the members of Object.prototype, objects without colour fields   *)
themesGet(themeName) ==
  IF themeName \in DOMAIN themes
  THEN [found |-> TRUE, barColor |-> themes[themeName].barColor,
        backgroundColor |-> themes[themeName].backgroundColor,
        textColor |-> themes[themeName].textColor]
  ELSE IF themeName \in ObjectPrototypeKeys
  THEN [found |-> TRUE, barColor |-> absent, backgroundColor |-> absent,
        textColor |-> absent]
  ELSE [found |-> FALSE, barColor |-> absent, backgroundColor |-> absent,
        textColor |-> absent]

(* The string style.setProperty receives for a value: undefined is        *)
(* converted to the text "undefined"                                      *)
setProperty(v) == IF v = absent THEN "undefined" ELSE v

NoSettings == [exists |-> FALSE, theme |-> absent, barColor |-> absent,
               backgroundColor |-> absent, textColor |-> absent,
               hasPresets |-> FALSE, presets |-> <<>>]

(* The colours of the stylesheet, before any handler sets a property *)
StylesheetCss == [bar |-> "stylesheet", background |-> "stylesheet",
                  text |-> "stylesheet", themeTransparent |-> FALSE]

(* The settings as the main window's handlers see them *)
P == [store |-> store, css |-> css, trayMenu |-> trayMenu, shown |-> 0]

applyTheme(p, themeName) ==
  LET theme == themesGet(themeName)
  IN IF ~theme.found THEN p
     ELSE showTimerWindow(
            [p EXCEPT !.css = [bar |-> setProperty(theme.barColor),
                               background |-> setProperty(theme.backgroundColor),
                               text |-> setProperty(theme.textColor),
                               themeTransparent |-> themeName = "transparent"],
                      !.store = [exists |-> TRUE, theme |-> themeName,
                                 barColor |-> theme.barColor,
                                 backgroundColor |-> theme.backgroundColor,
                                 textColor |-> theme.textColor,
                                 hasPresets |-> FALSE, presets |-> <<>>]])

(* invoke("rebuild_tray_menu", { presets }) *)
rebuildTrayMenu(p, list) == [p EXCEPT !.trayMenu = list]

(* loadSettings reads the record once; applyTheme then rewrites the store *)
loadSettings(p) ==
  LET settings == p.store
  IN IF settings.exists
     THEN LET a == IF truthy(settings.theme) /\ themesGet(settings.theme).found
                   THEN applyTheme(p, settings.theme)
                   ELSE [p EXCEPT
                           !.css.bar = IF truthy(settings.barColor)
                                       THEN setProperty(settings.barColor)
                                       ELSE @,
                           !.css.background =
                              IF truthy(settings.backgroundColor)
                              THEN setProperty(settings.backgroundColor) ELSE @,
                           !.css.text = IF truthy(settings.textColor)
                                        THEN setProperty(settings.textColor)
                                        ELSE @]
          IN rebuildTrayMenu(a, IF settings.hasPresets THEN settings.presets
                                ELSE DEFAULT_PRESETS)
     ELSE rebuildTrayMenu(applyTheme(p, "blue"), DEFAULT_PRESETS)

(* The listener of presets-updated *)
presetsUpdatedIgnored(p, payload) == p

presetsUpdated(p, payload) == rebuildTrayMenu(p, payload)

(* The preset editor: settings.ts *)
E == [presets |-> presets, presetInputs |-> presetInputs]

(* loadPresets: settings?.presets || DEFAULT_PRESETS *)
loadPresets(settings) ==
  IF settings.exists /\ settings.hasPresets THEN settings.presets
  ELSE DEFAULT_PRESETS

(* renderPresets writes one input for each preset of the list *)
renderPresets(e) ==
  [e EXCEPT !.presetInputs =
     [i \in 1..Len(e.presets) |-> formatSecondsToHHMMSS(e.presets[i])]]

addPreset(e) == renderPresets([e EXCEPT !.presets = Append(@, 600)])

(* presets.splice(index, 1), index counted from 0 *)
splice1(list, index) ==
  SubSeq(list, 1, index) \o SubSeq(list, index + 2, Len(list))

deletePresetUnguarded(e, index, confirmed) ==
  IF confirmed
  THEN renderPresets([e EXCEPT !.presets = splice1(@, index)])
  ELSE e

deletePreset(e, index, confirmed) ==
  IF Len(e.presets) = 1 THEN e
  ELSE IF confirmed
  THEN renderPresets([e EXCEPT !.presets = splice1(@, index)])
  ELSE e

validateInput(value) ==
  LET v == trim(value)
  IN IF v = <<>> THEN FALSE
     ELSE parseHHMMSS(v) # null

(* The entries savePresets collects, in the order of the inputs *)
RECURSIVE newPresetsOf(_)
newPresetsOf(values) ==
  IF Len(values) = 0 THEN <<>>
  ELSE LET value == trim(Head(values))
           rest == newPresetsOf(Tail(values))
       IN IF value = <<>> THEN rest
          ELSE IF ~validateInput(value) THEN rest
          ELSE IF parseHHMMSS(value) # null
          THEN <<parseHHMMSS(value)>> \o rest
          ELSE rest

hasErrorOf(values) ==
  \E i \in 1..Len(values) :
    trim(values[i]) = <<>> \/ ~validateInput(trim(values[i]))

savePresetsChecksSkipInvalid(values) ==
  [ok |-> Len(newPresetsOf(values)) > 0, newPresets |-> newPresetsOf(values)]

(* savePresets up to its first await: whether it goes on, and with what *)
savePresetsChecks(values) ==
  IF hasErrorOf(values) THEN [ok |-> FALSE, newPresets |-> <<>>]
  ELSE IF Len(newPresetsOf(values)) = 0
  THEN [ok |-> FALSE, newPresets |-> <<>>]
  ELSE [ok |-> TRUE, newPresets |-> newPresetsOf(values)]

(* savePresets after store.get: the record it hands to store.set *)
savePresetsRecord(existingSettings, newPresets) ==
  LET settings == IF existingSettings.exists THEN existingSettings
                  ELSE [exists |-> TRUE, theme |-> absent, barColor |-> "",
                        backgroundColor |-> "", textColor |-> "",
                        hasPresets |-> TRUE, presets |-> <<>>]
  IN [settings EXCEPT !.hasPresets = TRUE, !.presets = newPresets]

NotSaving == [active |-> FALSE, existingSettings |-> NoSettings,
              newPresets |-> <<>>]

NoEvent == [name |-> "none", id |-> ""]

----------------------------------------------------------------------------
(* Inputs of the model *)

(* Texts a user types into an edit input, before the input listener's filter *)
TypedTexts ==
  { <<"0", ":", "0", "1">>,
    <<"a", "0", ":", "6", "0">> }

(* Payloads of the set-time event the tray sends *)
SetTimePayloads == {2}

EditKeys == {"Enter", "Escape"}
ShortcutKeys == {"PageUp", "PageDown", "End"}

NoRun == [active |-> FALSE, n |-> 0, k |-> 0, fired |-> 0]

(* History of the claim about n ticks after a start: a toggle that starts a *)
(* paused countdown standing at its target opens a run, a tick extends it,  *)
(* every other event ends it.                                               *)
RunAfterToggle ==
  IF ~isRunning /\ mode = COUNTDOWN /\ currentTime = totalTime /\ currentTime >= 1
  THEN [active |-> TRUE, n |-> currentTime, k |-> 0, fired |-> 0]
  ELSE NoRun

RunAfterTick(n) ==
  IF run.active
  THEN [run EXCEPT !.k = @ + 1, !.fired = @ + n.notified]
  ELSE NoRun

CodecIdleIn == [kind |-> "none", fields |-> <<>>, deco |-> "none",
                text |-> <<>>, secs |-> 0]
CodecIdleOut == [fn |-> "none", text |-> <<>>, parser |-> "none", num |-> null]

(* The handler's result n becomes the next state *)
ApplyTimer(n, r) ==
  /\ mode' = n.mode
  /\ isRunning' = n.isRunning
  /\ currentTime' = n.currentTime
  /\ totalTime' = n.totalTime
  /\ isEditMode' = n.isEditMode
  /\ intervalId' = n.intervalId
  /\ liveIntervals' = n.liveIntervals
  /\ inputs' = n.inputs
  /\ timerDisplay' = n.timerDisplay
  /\ timerComplete' = n.timerComplete
  /\ clearTimeouts' = n.clearTimeouts
  /\ keyTimeouts' = n.keyTimeouts
  /\ notified' = n.notified
  /\ run' = r

Apply(n, r) ==
  /\ ApplyTimer(n, r)
  /\ press' = NoPress
  /\ UNCHANGED <<codecVars, prefsVars>>

(* The module-level state of a freshly loaded main window, after init *)
InitialS ==
  [mode |-> COUNTDOWN, isRunning |-> FALSE, currentTime |-> DefaultTime,
   totalTime |-> DefaultTime, isEditMode |-> FALSE, intervalId |-> null,
   liveIntervals |-> {}, inputs |-> <<>>,
   timerDisplay |-> displayText(DefaultTime), timerComplete |-> FALSE,
   clearTimeouts |-> 0, keyTimeouts |-> <<>>, notified |-> 0,
   shown |-> 0]

(* The settings after the first start, with no settings.json *)
PrefsStart ==
  LET p == loadSettings([store |-> NoSettings, css |-> StylesheetCss,
                         trayMenu |-> <<>>, shown |-> 0])
  IN /\ store = p.store
     /\ css = p.css
     /\ trayMenu = p.trayMenu
     /\ presetEvents = <<>>
     /\ editorOpen = FALSE
     /\ presets = <<>>
     /\ presetInputs = <<>>
     /\ saving = NotSaving
     /\ pEvent = [NoEvent EXCEPT !.name = "startup"]
     /\ colorUpdates = <<>>

----------------------------------------------------------------------------
(* The timer's events *)

Init ==
  /\ mode = COUNTDOWN
  /\ isRunning = FALSE
  /\ currentTime = DefaultTime
  /\ totalTime = DefaultTime
  /\ isEditMode = FALSE
  /\ intervalId = null
  /\ liveIntervals = {}
  /\ inputs = <<>>
  /\ timerDisplay = displayText(DefaultTime)
  /\ timerComplete = FALSE
  /\ clearTimeouts = 0
  /\ keyTimeouts = <<>>
  /\ notified = 0
  /\ run = NoRun
  /\ cIn = CodecIdleIn
  /\ cOut = CodecIdleOut
  /\ press = NoPress
  /\ PrefsStart

(* click on #start-pause *)
ClickStartPause ==
  /\ Apply(toggleTimer(S), RunAfterToggle)

(* click on #reset *)
ClickReset ==
  /\ Apply(resetTimer(S), NoRun)

(* A global shortcut pressed: the callbacks registerShortcuts registers *)
globalShortcut(s, key) ==
  IF key = "PageUp" THEN toggleTimer(s)
  ELSE IF key = "PageDown" THEN resetTimer(s)
  ELSE showTimerWindow(s)

GlobalShortcut(key) ==
  /\ Apply(globalShortcut(S, key),
           IF key = "PageUp" THEN RunAfterToggle ELSE NoRun)

(* keydown with the focus outside the edit inputs *)
DocumentKeydown(code) ==
  /\ Apply(documentKeydown(S, code),
           IF code = "PageUp" THEN RunAfterToggle ELSE NoRun)

(* keydown in an edit input: its listener, then the document's as it bubbles *)
InputKeydown(i, key) ==
  /\ i \in 1..Len(inputs)
  /\ key \in {"PageUp", "PageDown"} => Len(keyTimeouts) < MaxKeyTimeouts
  /\ Apply(documentKeydown(inputKeydown(S, key), key), NoRun)

(* The user replaces the text of an edit input; the input listener filters it *)
InputTyping(i, text) ==
  /\ i \in 1..Len(inputs)
  /\ Apply([S EXCEPT !.inputs[i] = filterInput(text)], NoRun)

(* A 10 ms timeout of an input's key listener fires: it belongs to the *)
(* press that scheduled it                                            *)
KeyTimeout ==
  /\ Len(keyTimeouts) > 0
  /\ ApplyTimer(keyTimeoutCallback(S), NoRun)
  /\ UNCHANGED <<codecVars, press, prefsVars>>

ClearTimeout ==
  /\ clearTimeouts > 0
  /\ Apply(clearTimeoutCallback(S), NoRun)

(* The model follows a count for MaxTicks seconds: a stopwatch from zero, a *)
(* countdown from the default time and over its last seconds before zero.  *)
TickAllowed ==
  IF mode = COUNTDOWN
  THEN \/ currentTime <= MaxTicks
       \/ DefaultTime - MaxTicks < currentTime /\ currentTime <= DefaultTime
  ELSE currentTime < MaxTicks

(* A live repeating timer fires *)
Tick(id) ==
  /\ id \in liveIntervals
  /\ TickAllowed
  /\ LET n == intervalCallback(S)
     IN n.clearTimeouts <= MaxClearTimeouts /\ Apply(n, RunAfterTick(n))

(* listen("open-settings") *)
OpenSettings ==
  /\ Len(inputs) < MaxInputs
  /\ Apply(showTimerWindow(enterEditMode(S)), NoRun)

(* listen("set-time") *)
SetTimeEvent(payload) ==
  /\ Apply(setTime(S, payload), NoRun)

(* listen("toggle-mode") *)
ToggleModeEvent ==
  /\ Apply(toggleMode(S), NoRun)

Next ==
  \/ ClickStartPause
  \/ ClickReset
  \/ \E key \in ShortcutKeys : GlobalShortcut(key)
  \/ \E code \in ShortcutKeys : DocumentKeydown(code)
  \/ \E i \in 1..MaxInputs, key \in EditKeys : InputKeydown(i, key)
  \/ \E i \in 1..MaxInputs, text \in TypedTexts : InputTyping(i, text)
  \/ ClearTimeout
  \/ \E id \in liveIntervals : Tick(id)
  \/ OpenSettings
  \/ \E payload \in SetTimePayloads : SetTimeEvent(payload)
  \/ ToggleModeEvent

Spec == Init /\ [][Next]_vars

(* The timer with nothing typed into an edit input: clicks, tray events, *)
(* edits left with Enter or Escape, ticks and auto-clears                *)
AutoClearNext ==
  \/ ClickStartPause
  \/ ClickReset
  \/ ClearTimeout
  \/ OpenSettings
  \/ \E i \in 1..MaxInputs, key \in EditKeys : InputKeydown(i, key)
  \/ \E id \in liveIntervals : Tick(id)
  \/ \E payload \in SetTimePayloads : SetTimeEvent(payload)
  \/ ToggleModeEvent

(* The event loop runs the callback of every timeout that is due *)
AutoClearSpec == Init /\ [][AutoClearNext]_vars /\ WF_vars(ClearTimeout)

----------------------------------------------------------------------------
(* The codec on its own: an input is drawn, and the codec's functions are  *)
(* applied to it; a text is also typed into a fresh edit input and         *)
(* committed.                                                              *)

(* Digit fields a text is built from, each with the number it denotes *)
CodecFields ==
  { [digits |-> <<>>, value |-> 0],
    [digits |-> <<"0">>, value |-> 0],
    [digits |-> <<"1">>, value |-> 1],
    [digits |-> <<"0", "0">>, value |-> 0],
    [digits |-> <<"0", "1">>, value |-> 1],
    [digits |-> <<"2", "5">>, value |-> 25],
    [digits |-> <<"3", "0">>, value |-> 30],
    [digits |-> <<"5", "9">>, value |-> 59],
    [digits |-> <<"6", "0">>, value |-> 60],
    [digits |-> <<"9", "9">>, value |-> 99],
    [digits |-> <<"1", "0", "0">>, value |-> 100] }

CodecDecos == {"none", "lead", "trail", "inner", "letter"}

CodecFieldTuples ==
  UNION { [1..k -> CodecFields] : k \in 1..3 }
    \cup { [i \in 1..4 |-> [digits |-> <<"0", "1">>, value |-> 1]] }

RECURSIVE JoinFields(_)
JoinFields(fs) ==
  IF Len(fs) = 0 THEN <<>>
  ELSE IF Len(fs) = 1 THEN fs[1].digits
  ELSE fs[1].digits \o <<":">> \o JoinFields(Tail(fs))

Decorate(t, deco) ==
  CASE deco = "none" -> t
    [] deco = "lead" -> <<" ">> \o t
    [] deco = "trail" -> t \o <<" ", " ">>
    [] deco = "inner" -> IF Len(t) > 0 THEN <<t[1], " ">> \o Tail(t) ELSE <<" ">>
    [] deco = "letter" -> t \o <<"a">>

CodecMinutes == {0, 1, 3, 30, 59}
CodecSeconds == {0, 1, 59}

CodecTextInputs ==
  { [kind |-> "text", fields |-> fs, deco |-> d,
     text |-> Decorate(JoinFields(fs), d), secs |-> 0] :
    fs \in CodecFieldTuples, d \in CodecDecos }

CodecSecsInputs ==
  { [kind |-> "secs", fields |-> <<>>, deco |-> "none", text |-> <<>>,
     secs |-> h * 3600 + m * 60 + s] :
    h \in 0..CodecMaxHours, m \in CodecMinutes, s \in CodecSeconds }

CodecInit ==
  /\ mode = COUNTDOWN
  /\ isRunning = FALSE
  /\ currentTime = DefaultTime
  /\ totalTime = DefaultTime
  /\ isEditMode = FALSE
  /\ intervalId = null
  /\ liveIntervals = {}
  /\ inputs = <<>>
  /\ timerDisplay = displayText(DefaultTime)
  /\ timerComplete = FALSE
  /\ clearTimeouts = 0
  /\ keyTimeouts = <<>>
  /\ notified = 0
  /\ run = NoRun
  /\ cIn \in CodecTextInputs \cup CodecSecsInputs
  /\ cOut = CodecIdleOut
  /\ press = NoPress
  /\ PrefsStart

Called(fn, text, parser, num) ==
  /\ cOut' = [fn |-> fn, text |-> text, parser |-> parser, num |-> num]
  /\ UNCHANGED <<cIn, timerVars, press, prefsVars>>

CodecParse ==
  /\ cIn.kind = "text" /\ cOut.fn = "none" /\ inputs = <<>>
  /\ Called("parseTimeInput", cIn.text, "parseTimeInput",
            parseTimeInput(cIn.text))

CodecParsePreset ==
  /\ cIn.kind = "text" /\ cOut.fn = "none" /\ inputs = <<>>
  /\ Called("parseHHMMSS", cIn.text, "parseHHMMSS", parseHHMMSS(cIn.text))

CodecDisplay ==
  /\ cIn.kind = "secs" /\ cOut.fn = "none"
  /\ Called("updateDisplay", displayText(cIn.secs), "none", null)

CodecSeed ==
  /\ cIn.kind = "secs" /\ cOut.fn = "none"
  /\ Called("enterEditMode", seedText(cIn.secs), "none", null)

CodecFormatPreset ==
  /\ cIn.kind = "secs" /\ cOut.fn = "none"
  /\ Called("formatSecondsToHHMMSS", formatSecondsToHHMMSS(cIn.secs), "none",
            null)

CodecLabel ==
  /\ cIn.kind = "secs" /\ cOut.fn = "none"
  /\ Called("generateLabel", generateLabel(cIn.secs), "none", null)

(* The text a formatter produced is parsed by the inline parser *)
CodecReparse ==
  /\ cOut.fn \in {"updateDisplay", "enterEditMode", "formatSecondsToHHMMSS"}
  /\ cOut.parser = "none"
  /\ Called(cOut.fn, cOut.text, "parseTimeInput", parseTimeInput(cOut.text))

(* The text the preset formatter produced is parsed by the preset parser *)
CodecReparsePreset ==
  /\ cOut.fn = "formatSecondsToHHMMSS"
  /\ cOut.parser = "none"
  /\ Called(cOut.fn, cOut.text, "parseHHMMSS", parseHHMMSS(cOut.text))

(* The text is typed into a fresh edit input and committed with Enter *)
CodecOpen ==
  /\ cIn.kind = "text" /\ cOut.fn = "none" /\ inputs = <<>>
  /\ OpenSettings

CodecType ==
  /\ cOut.fn = "none" /\ Len(inputs) = 1 /\ inputs[1] = seedText(currentTime)
  /\ InputTyping(1, cIn.text)

CodecCommit ==
  /\ cOut.fn = "none" /\ Len(inputs) = 1 /\ inputs[1] = filterInput(cIn.text)
  /\ LET n == documentKeydown(inputKeydown(S, "Enter"), "Enter")
     IN /\ ApplyTimer(n, NoRun)
        /\ cOut' = [fn |-> "exitEditMode", text |-> inputs[1],
                    parser |-> "parseTimeInput", num |-> n.currentTime]
        /\ UNCHANGED <<cIn, press, prefsVars>>

CodecNext ==
  \/ CodecParse
  \/ CodecParsePreset
  \/ CodecDisplay
  \/ CodecSeed
  \/ CodecFormatPreset
  \/ CodecLabel
  \/ CodecReparse
  \/ CodecReparsePreset
  \/ CodecOpen
  \/ CodecType
  \/ CodecCommit

CodecSpec == CodecInit /\ [][CodecNext]_vars

----------------------------------------------------------------------------
(* The settings' events: the preset editor window, the main window's       *)
(* listeners of the tray events, and a restart of the application.  The    *)
(* store's set and save and the emit of one savePresets call are one step. *)

MaxPresets == 3
MaxTyped == 1

(* Texts typed into a preset input: 5 minutes, a two-field text, and *)
(* nothing but a blank                                              *)
PresetTexts ==
  { <<"0", "0", ":", "0", "5", ":", "0", "0">>,
    <<"5", ":", "0", "0">>,
    <<" ">> }

(* Payloads of change-theme: table entries and ids the table does not have *)
ThemeRequests == {"green", "pink", "constructor"}

SetMain(p) ==
  /\ store' = p.store
  /\ css' = p.css
  /\ trayMenu' = p.trayMenu

SetEditor(e) ==
  /\ presets' = e.presets
  /\ presetInputs' = e.presetInputs

(* The application is quit and started again: init of the main window *)
Startup ==
  /\ presetEvents = <<>>
  /\ ~saving.active
  /\ SetMain(loadSettings([store |-> store, css |-> StylesheetCss,
                           trayMenu |-> trayMenu, shown |-> 0]))
  /\ ApplyTimer(InitialS, NoRun)
  /\ press' = NoPress
  /\ editorOpen' = FALSE
  /\ SetEditor([presets |-> <<>>, presetInputs |-> <<>>])
  /\ pEvent' = [NoEvent EXCEPT !.name = "startup"]
  /\ UNCHANGED <<codecVars, presetEvents, saving, colorUpdates>>

(* listen("change-theme") *)
ChangeTheme(id) ==
  /\ SetMain(applyTheme(P, id))
  /\ pEvent' = [NoEvent EXCEPT !.name = "change-theme", !.id = id]
  /\ UNCHANGED <<timerVars, codecVars, press, presetEvents, editorOpen,
                 presets, presetInputs, saving, colorUpdates>>

presetSelectedOneBased(s, settings, presetIndex) ==
  LET list == IF settings.exists /\ settings.hasPresets THEN settings.presets
              ELSE <<180, 300, 1500>>
  IN IF presetIndex >= 1 /\ presetIndex <= Len(list)
     THEN setTime(s, list[presetIndex])
     ELSE s

(* listen("preset-selected") *)
presetSelected(s, settings, presetIndex) ==
  LET list == IF settings.exists /\ settings.hasPresets THEN settings.presets
              ELSE <<180, 300, 1500>>
  IN IF presetIndex >= 0 /\ presetIndex < Len(list)
     THEN setTime(s, list[presetIndex + 1])
     ELSE s

(* A preset item of the tray menu is chosen *)
PresetSelected(presetIndex) ==
  /\ presetIndex \in 0..(Len(trayMenu) - 1)
  /\ ApplyTimer(presetSelected(S, store, presetIndex), NoRun)
  /\ press' = NoPress
  /\ pEvent' = NoEvent
  /\ UNCHANGED <<codecVars, store, css, trayMenu, presetEvents, editorOpen,
                 presets, presetInputs, saving, colorUpdates>>

(* listen("presets-updated") receives an emitted event *)
PresetsUpdated ==
  /\ Len(presetEvents) > 0
  /\ SetMain(presetsUpdated(P, Head(presetEvents)))
  /\ presetEvents' = Tail(presetEvents)
  /\ pEvent' = NoEvent
  /\ UNCHANGED <<timerVars, codecVars, press, editorOpen, presets,
                 presetInputs, saving, colorUpdates>>

(* The editor window is opened: init of settings.ts *)
OpenEditor ==
  /\ ~editorOpen
  /\ presetEvents = <<>>
  /\ editorOpen' = TRUE
  /\ SetEditor(renderPresets([presets |-> loadPresets(store),
                              presetInputs |-> <<>>]))
  /\ pEvent' = NoEvent
  /\ UNCHANGED <<timerVars, codecVars, press, store, css, trayMenu,
                 presetEvents, saving, colorUpdates>>

(* click on #cancel-btn, or Escape in a preset input *)
CloseEditor ==
  /\ editorOpen
  /\ ~saving.active
  /\ editorOpen' = FALSE
  /\ SetEditor([presets |-> <<>>, presetInputs |-> <<>>])
  /\ pEvent' = NoEvent
  /\ UNCHANGED <<timerVars, codecVars, press, store, css, trayMenu,
                 presetEvents, saving, colorUpdates>>

EditorStep(e, event) ==
  /\ editorOpen
  /\ ~saving.active
  /\ SetEditor(e)
  /\ pEvent' = event
  /\ UNCHANGED <<timerVars, codecVars, press, store, css, trayMenu,
                 presetEvents, editorOpen, saving, colorUpdates>>

(* click on #add-preset-btn *)
AddPreset ==
  /\ Len(presets) < MaxPresets
  /\ EditorStep(addPreset(E), NoEvent)

(* click on a .delete-btn; the user answers the confirm dialog *)
DeletePreset(index, confirmed) ==
  /\ index \in 0..(Len(presets) - 1)
  /\ EditorStep(deletePreset(E, index, confirmed),
                IF Len(presets) = 1
                THEN [NoEvent EXCEPT !.name = "delete-refused"]
                ELSE NoEvent)

(* The user replaces the text of a preset input; its listener filters it. *)
(* At most MaxTyped inputs hold a typed text at a time.                   *)
TypePreset(i, text) ==
  /\ i \in 1..Len(presetInputs)
  /\ Cardinality({j \in 1..Len(presetInputs) :
                    /\ j # i
                    /\ presetInputs[j] # formatSecondsToHHMMSS(presets[j])})
       < MaxTyped
  /\ EditorStep([E EXCEPT !.presetInputs[i] = filterInput(text)],
                NoEvent)

(* click on #save-btn, or Enter in a preset input: savePresets up to its   *)
(* first await, where it asks the store for the existing settings          *)
SavePresets ==
  /\ editorOpen
  /\ ~saving.active
  /\ LET c == savePresetsChecks(presetInputs)
     IN IF c.ok
        THEN /\ saving' = [active |-> TRUE, existingSettings |-> store,
                           newPresets |-> c.newPresets]
             /\ pEvent' = NoEvent
        ELSE /\ saving' = saving
             /\ pEvent' = [NoEvent EXCEPT !.name = "save-rejected"]
  /\ UNCHANGED <<timerVars, codecVars, press, store, css, trayMenu,
                 presetEvents, editorOpen, presets, presetInputs,
                 colorUpdates>>

(* savePresets after store.get: store.set, store.save, emit, closeWindow *)
SaveWrite ==
  /\ saving.active
  /\ store' = savePresetsRecord(saving.existingSettings, saving.newPresets)
  /\ presetEvents' = Append(presetEvents, saving.newPresets)
  /\ editorOpen' = FALSE
  /\ SetEditor([presets |-> <<>>, presetInputs |-> <<>>])
  /\ saving' = NotSaving
  /\ pEvent' = NoEvent
  /\ UNCHANGED <<timerVars, codecVars, press, css, trayMenu, colorUpdates>>

(* One session of the preset editor after another *)
EditorNext ==
  \/ OpenEditor
  \/ CloseEditor
  \/ AddPreset
  \/ \E index \in 0..(MaxPresets - 1), confirmed \in BOOLEAN :
       DeletePreset(index, confirmed)
  \/ \E i \in 1..MaxPresets, text \in PresetTexts : TypePreset(i, text)
  \/ SavePresets
  \/ SaveWrite
  \/ PresetsUpdated

EditorSpec == Init /\ [][EditorNext]_vars

(* The settings across theme changes, saves and restarts *)
PrefsNext ==
  \/ Startup
  \/ \E id \in ThemeRequests : ChangeTheme(id)
  \/ \E presetIndex \in 0..(MaxPresets - 1) : PresetSelected(presetIndex)
  \/ PresetsUpdated
  \/ OpenEditor
  \/ \E index \in 0..(MaxPresets - 1) : DeletePreset(index, TRUE)
  \/ SavePresets
  \/ SaveWrite

PrefsSpec == Init /\ [][PrefsNext]_vars

(* The event loop delivers every emitted event, and a store call returns *)
PrefsLiveSpec ==
  PrefsSpec /\ WF_vars(PresetsUpdated) /\ WF_vars(SaveWrite)

----------------------------------------------------------------------------
(* The shortcut keys: one press of PageUp or PageDown, in an edit input,   *)
(* elsewhere in the window, or caught by the global shortcut; the press is *)
(* followed until the timeouts it scheduled have fired.                    *)

PressKeys == {"PageUp", "PageDown"}

Pressed(n, key) ==
  /\ keyTimeouts = <<>>
  /\ ApplyTimer(n, NoRun)
  /\ press' = [key |-> key, before |-> isRunning]
  /\ UNCHANGED <<codecVars, prefsVars>>

(* keydown in an edit input: its listener, then the document's as it bubbles *)
PressInInput(i, key) ==
  /\ i \in 1..Len(inputs)
  /\ Pressed(documentKeydown(inputKeydown(S, key), key), key)

(* keydown with the focus outside the edit inputs *)
PressInDocument(key) ==
  /\ Pressed(documentKeydown(S, key), key)

(* The key is caught by the global shortcut *)
PressGlobal(key) ==
  /\ Pressed(globalShortcut(S, key), key)

KeyNext ==
  \/ \E i \in 1..MaxInputs, key \in PressKeys : PressInInput(i, key)
  \/ \E key \in PressKeys : PressInDocument(key)
  \/ \E key \in PressKeys : PressGlobal(key)
  \/ KeyTimeout
  \/ OpenSettings
  \/ \E i \in 1..MaxInputs, key \in EditKeys : InputKeydown(i, key)
  \/ \E id \in liveIntervals : Tick(id)
  \/ ToggleModeEvent

KeySpec == Init /\ [][KeyNext]_vars

----------------------------------------------------------------------------
(* The dynamic theme: a countdown of total seconds runs down while the     *)
(* theme is "dynamic"; each tick's updateDisplay recolours the bar.        *)

ColorMaxTotal == 20

(* progress > k/10, for progress = currentTime / totalTime when totalTime   *)
(* is positive and 0 otherwise.  The quotient and the literal are doubles; *)
(* for the integers of the model the comparison of the doubles agrees with *)
(* the comparison of the exact fractions.                                  *)
progressAbove(current, total, k) ==
  IF total > 0 THEN 10 * current > k * total ELSE FALSE

dynamicGradientClosedAbove(current, total) ==
  IF total > 0 /\ 10 * current >= 9 * total
  THEN "linear-gradient(90deg, #065f46 0%, #10b981 100%)"
  ELSE IF total > 0 /\ 10 * current >= 8 * total
  THEN "linear-gradient(90deg, #16a34a 0%, #4ade80 100%)"
  ELSE IF total > 0 /\ 10 * current >= 7 * total
  THEN "linear-gradient(90deg, #22c55e 0%, #86efac 100%)"
  ELSE IF total > 0 /\ 10 * current >= 6 * total
  THEN "linear-gradient(90deg, #65a30d 0%, #a3e635 100%)"
  ELSE IF total > 0 /\ 10 * current >= 5 * total
  THEN "linear-gradient(90deg, #ca8a04 0%, #fbbf24 100%)"
  ELSE IF total > 0 /\ 10 * current >= 4 * total
  THEN "linear-gradient(90deg, #ea580c 0%, #fb923c 100%)"
  ELSE IF total > 0 /\ 10 * current >= 3 * total
  THEN "linear-gradient(90deg, #dc2626 0%, #f97316 100%)"
  ELSE IF total > 0 /\ 10 * current >= 2 * total
  THEN "linear-gradient(90deg, #b91c1c 0%, #ef4444 100%)"
  ELSE IF total > 0 /\ 10 * current >= 1 * total
  THEN "linear-gradient(90deg, #991b1b 0%, #dc2626 100%)"
  ELSE "linear-gradient(90deg, #7f1d1d 0%, #b91c1c 100%)"

(* The gradient updateDynamicColor chooses *)
dynamicGradient(current, total) ==
  IF progressAbove(current, total, 9)
  THEN "linear-gradient(90deg, #065f46 0%, #10b981 100%)"
  ELSE IF progressAbove(current, total, 8)
  THEN "linear-gradient(90deg, #16a34a 0%, #4ade80 100%)"
  ELSE IF progressAbove(current, total, 7)
  THEN "linear-gradient(90deg, #22c55e 0%, #86efac 100%)"
  ELSE IF progressAbove(current, total, 6)
  THEN "linear-gradient(90deg, #65a30d 0%, #a3e635 100%)"
  ELSE IF progressAbove(current, total, 5)
  THEN "linear-gradient(90deg, #ca8a04 0%, #fbbf24 100%)"
  ELSE IF progressAbove(current, total, 4)
  THEN "linear-gradient(90deg, #ea580c 0%, #fb923c 100%)"
  ELSE IF progressAbove(current, total, 3)
  THEN "linear-gradient(90deg, #dc2626 0%, #f97316 100%)"
  ELSE IF progressAbove(current, total, 2)
  THEN "linear-gradient(90deg, #b91c1c 0%, #ef4444 100%)"
  ELSE IF progressAbove(current, total, 1)
  THEN "linear-gradient(90deg, #991b1b 0%, #dc2626 100%)"
  ELSE "linear-gradient(90deg, #7f1d1d 0%, #b91c1c 100%)"

(* updateDynamicColor, as updateDisplay calls it in Countdown mode *)
updateDynamicColor(p, s) ==
  IF s.mode = COUNTDOWN /\ p.store.exists /\ p.store.theme = "dynamic"
  THEN [p EXCEPT !.css.bar = dynamicGradient(s.currentTime, s.totalTime)]
  ELSE p

(* After change-theme "dynamic", set-time total, and a start *)
ColorInit ==
  /\ \E total \in 1..ColorMaxTotal :
       LET s == startTimer(setTime(InitialS, total))
           p == updateDynamicColor(
                  applyTheme([store |-> NoSettings, css |-> StylesheetCss,
                              trayMenu |-> DEFAULT_PRESETS, shown |-> 0],
                             "dynamic"), s)
       IN /\ mode = s.mode
          /\ isRunning = s.isRunning
          /\ currentTime = s.currentTime
          /\ totalTime = s.totalTime
          /\ isEditMode = s.isEditMode
          /\ intervalId = s.intervalId
          /\ liveIntervals = s.liveIntervals
          /\ inputs = s.inputs
          /\ timerDisplay = s.timerDisplay
          /\ timerComplete = s.timerComplete
          /\ clearTimeouts = s.clearTimeouts
          /\ keyTimeouts = s.keyTimeouts
          /\ store = p.store
          /\ css = p.css
          /\ trayMenu = p.trayMenu
  /\ notified = 0
  /\ run = NoRun
  /\ cIn = CodecIdleIn
  /\ cOut = CodecIdleOut
  /\ press = NoPress
  /\ presetEvents = <<>>
  /\ editorOpen = FALSE
  /\ presets = <<>>
  /\ presetInputs = <<>>
  /\ saving = NotSaving
  /\ pEvent = [NoEvent EXCEPT !.name = "change-theme", !.id = "dynamic"]
  /\ colorUpdates = <<>>

(* The interval fires: the callback's updateDisplay recolours the bar *)
ColorTick(id) ==
  /\ id \in liveIntervals
  /\ LET n == intervalCallback(S)
     IN /\ ApplyTimer(n, NoRun)
        /\ SetMain(updateDynamicColor(P, n))
  /\ UNCHANGED <<codecVars, press, presetEvents, editorOpen, presets,
                 presetInputs, saving, pEvent, colorUpdates>>

(* The auto-clear of a completion fires *)
ColorClear ==
  /\ clearTimeouts > 0
  /\ ApplyTimer(clearTimeoutCallback(S), NoRun)
  /\ UNCHANGED <<codecVars, press, prefsVars>>

ColorNext ==
  \/ \E id \in liveIntervals : ColorTick(id)
  \/ ColorClear

ColorSpec == ColorInit /\ [][ColorNext]_vars

(* The repeating timer fires as long as it is live *)
ColorLiveSpec ==
  ColorSpec /\ WF_vars(\E id \in liveIntervals : ColorTick(id))

----------------------------------------------------------------------------
(* The tray's events on the settings.json found at the start: a file the   *)
(* application wrote, this version or another one, or one edited by hand.  *)

(* The theme field of a stored record: a table entry, or an id the table *)
(* of this version does not have                                         *)
StoredThemes == {"green", "pink"}

(* The three colour fields of a stored record without a theme field: *)
(* empty, or a legacy colour                                         *)
StoredColors == {"", "#112233"}

(* No presets field, and lists saved by the preset editor *)
StoredPresetLists == {<<>>, <<600, 45>>, <<60, 600, 45, 7200>>}

(* No record, records without a theme, and records with a theme and the *)
(* colours stored with it                                                *)
StoredRecords ==
  {NoSettings} \cup
  { [exists |-> TRUE, theme |-> absent, barColor |-> c, backgroundColor |-> c,
     textColor |-> c, hasPresets |-> l # <<>>, presets |-> l] :
    c \in StoredColors, l \in StoredPresetLists } \cup
  { [exists |-> TRUE, theme |-> t, barColor |-> "#112233",
     backgroundColor |-> "#112233", textColor |-> "#112233",
     hasPresets |-> l # <<>>, presets |-> l] :
    t \in StoredThemes, l \in StoredPresetLists }

(* Payloads of set-time: the listener takes any number *)
TrayPayloads == {0, 2}

(* The state after init of the main window has loaded the stored record *)
TrayInit ==
  /\ mode = InitialS.mode
  /\ isRunning = InitialS.isRunning
  /\ currentTime = InitialS.currentTime
  /\ totalTime = InitialS.totalTime
  /\ isEditMode = InitialS.isEditMode
  /\ intervalId = InitialS.intervalId
  /\ liveIntervals = InitialS.liveIntervals
  /\ inputs = InitialS.inputs
  /\ timerDisplay = InitialS.timerDisplay
  /\ timerComplete = InitialS.timerComplete
  /\ clearTimeouts = InitialS.clearTimeouts
  /\ keyTimeouts = InitialS.keyTimeouts
  /\ notified = 0
  /\ run = NoRun
  /\ cIn = CodecIdleIn
  /\ cOut = CodecIdleOut
  /\ press = NoPress
  /\ \E record \in StoredRecords :
       LET p == loadSettings([store |-> record, css |-> StylesheetCss,
                              trayMenu |-> <<>>, shown |-> 0])
       IN /\ store = p.store
          /\ css = p.css
          /\ trayMenu = p.trayMenu
  /\ presetEvents = <<>>
  /\ editorOpen = FALSE
  /\ presets = <<>>
  /\ presetInputs = <<>>
  /\ saving = NotSaving
  /\ pEvent = [NoEvent EXCEPT !.name = "startup"]
  /\ colorUpdates = <<>>

TrayNext ==
  \/ Startup
  \/ \E id \in ThemeRequests : ChangeTheme(id)
  \/ \E presetIndex \in 0..MaxPresets : PresetSelected(presetIndex)
  \/ \E payload \in TrayPayloads : SetTimeEvent(payload)
  \/ ClickStartPause

TraySpec == TrayInit /\ [][TrayNext]_vars

----------------------------------------------------------------------------
(* The bar colour under theme changes.  updateDynamicColor is async: the   *)
(* call keeps the progress of its updateDisplay, waits for store.get, and  *)
(* its continuation tests the theme it was given and sets the colour.      *)
(* Events are handled between the call, the answer and the continuation.   *)
(* The handlers followed here call updateDisplay once, as their last step. *)

MaxColorUpdates == 2

(* The theme field of a call whose store.get is not answered yet *)
ColorUnread == "<unread>"

(* Payloads of change-theme: the dynamic theme and a fixed-colour theme *)
ColorThemeRequests == {"dynamic", "green"}

(* Payloads of set-time: a countdown short enough to run through its bands *)
ColorPayloads == {2}

(* updateDisplay's colour branch: in Countdown mode it calls               *)
(* updateDynamicColor(progress), which runs up to its await                *)
updateDisplayColor(q, s) ==
  IF s.mode = COUNTDOWN
  THEN Append(q, [current |-> s.currentTime, total |-> s.totalTime,
                  theme |-> ColorUnread])
  ELSE q

(* settings?.theme as store.get answers it *)
storeGetTheme(settings) ==
  IF settings.exists THEN settings.theme ELSE absent

(* updateDynamicColor after its await, for the call u *)
updateDynamicColorResume(p, u) ==
  IF u.theme = "dynamic"
  THEN [p EXCEPT !.css.bar = dynamicGradient(u.current, u.total)]
  ELSE p

(* The state after init on a first start: loadSettings, then updateDisplay *)
DynamicInit ==
  /\ mode = InitialS.mode
  /\ isRunning = InitialS.isRunning
  /\ currentTime = InitialS.currentTime
  /\ totalTime = InitialS.totalTime
  /\ isEditMode = InitialS.isEditMode
  /\ intervalId = InitialS.intervalId
  /\ liveIntervals = InitialS.liveIntervals
  /\ inputs = InitialS.inputs
  /\ timerDisplay = InitialS.timerDisplay
  /\ timerComplete = InitialS.timerComplete
  /\ clearTimeouts = InitialS.clearTimeouts
  /\ keyTimeouts = InitialS.keyTimeouts
  /\ notified = 0
  /\ run = NoRun
  /\ cIn = CodecIdleIn
  /\ cOut = CodecIdleOut
  /\ press = NoPress
  /\ LET p == loadSettings([store |-> NoSettings, css |-> StylesheetCss,
                            trayMenu |-> <<>>, shown |-> 0])
     IN /\ store = p.store
        /\ css = p.css
        /\ trayMenu = p.trayMenu
  /\ presetEvents = <<>>
  /\ editorOpen = FALSE
  /\ presets = <<>>
  /\ presetInputs = <<>>
  /\ saving = NotSaving
  /\ pEvent = [NoEvent EXCEPT !.name = "startup"]
  /\ colorUpdates = updateDisplayColor(<<>>, InitialS)

(* A handler that ends with updateDisplay *)
ApplyColor(n, r) ==
  /\ Len(colorUpdates) < MaxColorUpdates
  /\ ApplyTimer(n, r)
  /\ press' = NoPress
  /\ colorUpdates' = updateDisplayColor(colorUpdates, n)
  /\ UNCHANGED <<codecVars, store, css, trayMenu, presetEvents, editorOpen,
                 presets, presetInputs, saving, pEvent>>

(* A live repeating timer fires *)
DynamicTick(id) ==
  /\ id \in liveIntervals
  /\ TickAllowed
  /\ LET n == intervalCallback(S)
     IN n.clearTimeouts <= MaxClearTimeouts /\ ApplyColor(n, RunAfterTick(n))

(* click on #reset *)
DynamicReset ==
  /\ ApplyColor(resetTimer(S), NoRun)

(* listen("set-time") *)
DynamicSetTime(payload) ==
  /\ ApplyColor(setTime(S, payload), NoRun)

(* listen("toggle-mode") *)
DynamicToggleMode ==
  /\ ApplyColor(toggleMode(S), NoRun)

(* The store answers the store.get of a waiting call: the calls are        *)
(* answered in the order they were made, each at any moment after its call *)
ColorRead ==
  /\ \E k \in 1..Len(colorUpdates) :
       /\ colorUpdates[k].theme = ColorUnread
       /\ \A j \in 1..(k - 1) : colorUpdates[j].theme # ColorUnread
       /\ colorUpdates' =
            [colorUpdates EXCEPT ![k].theme = storeGetTheme(store)]
  /\ UNCHANGED <<timerVars, codecVars, press, store, css, trayMenu,
                 presetEvents, editorOpen, presets, presetInputs, saving,
                 pEvent>>

(* The continuation of the oldest answered call runs *)
ColorWrite ==
  /\ Len(colorUpdates) > 0
  /\ Head(colorUpdates).theme # ColorUnread
  /\ SetMain(updateDynamicColorResume(P, Head(colorUpdates)))
  /\ colorUpdates' = Tail(colorUpdates)
  /\ UNCHANGED <<timerVars, codecVars, press, presetEvents, editorOpen,
                 presets, presetInputs, saving, pEvent>>

DynamicNext ==
  \/ ClickStartPause
  \/ ClearTimeout
  \/ \E id \in liveIntervals : DynamicTick(id)
  \/ DynamicReset
  \/ \E payload \in ColorPayloads : DynamicSetTime(payload)
  \/ DynamicToggleMode
  \/ \E id \in ColorThemeRequests : ChangeTheme(id)
  \/ ColorRead
  \/ ColorWrite

DynamicSpec == DynamicInit /\ [][DynamicNext]_vars

----------------------------------------------------------------------------
(* Claims about the timer, checked under Spec *)

(* C1: in Countdown mode the current time stays between 0 and the total   *)
(* time, in every state the timer's events can reach.                     *)
C1_CountdownWithinTotal ==
  mode = COUNTDOWN => 0 <= currentTime /\ currentTime <= totalTime

(* C1 witness: a running countdown that ticks have taken below its total *)
C1_Witness ==
  mode = COUNTDOWN /\ isRunning /\ 0 < currentTime /\ currentTime < totalTime

(* C2: a start from a paused countdown standing at its target n, followed *)
(* by ticks only: before the n-th tick no notification has fired and the  *)
(* count is n minus the ticks; after the n-th the count is 0, the timer   *)
(* is stopped, its interval is cancelled and one notification has fired.  *)
C2_RunCompletes ==
  run.active =>
    /\ run.k <= run.n
    /\ run.k < run.n =>
         run.fired = 0 /\ isRunning /\ currentTime = run.n - run.k
    /\ run.k = run.n =>
         /\ currentTime = 0
         /\ ~isRunning
         /\ intervalId = null
         /\ liveIntervals = {}
         /\ run.fired = 1

(* C2 witness: a run of two ticks from a target of 2 has completed *)
C2_Witness == run.active /\ run.n = 2 /\ run.k = 2 /\ notified = 1

(* C3: a notification fires only in a step that takes a countdown from a  *)
(* positive current time to 0; a tick that begins at 0 fires none.        *)
C3_NotifiesOnlyOnEdge ==
  [][notified' = 1 => mode = COUNTDOWN /\ currentTime > 0 /\ currentTime' = 0]_vars

(* C4: at most one repeating timer is live, the interval handle is set    *)
(* exactly when the timer runs and names that timer, and startTimer on a  *)
(* running timer changes nothing.                                         *)
C4_OneIntervalIffRunning ==
  /\ Cardinality(liveIntervals) <= 1
  /\ (intervalId # null) <=> isRunning
  /\ liveIntervals = IF intervalId # null THEN {intervalId} ELSE {}
  /\ isRunning => startTimer(S) = S

(* C4 witness: a started timer holds its one interval *)
C4_Witness == isRunning /\ intervalId # null /\ liveIntervals = {intervalId}

(* C5: the timer never runs while an edit is in progress *)
C5_NeverRunningWhileEditing == ~(isRunning /\ isEditMode)

(* C8: Enter in an edit input holding a text that fails to parse, and     *)
(* Escape with any text, leave the edit and change neither times, mode    *)
(* nor running state; Enter on a text that parses to p sets both times    *)
(* to p and leaves the edit.                                              *)
C8_CommitOrCancel ==
  [][\A i \in 1..Len(inputs) :
       /\ InputKeydown(i, "Enter") =>
            LET p == parseTimeInput(inputs[i])
            IN /\ isEditMode' = FALSE
               /\ IF p = null
                  THEN UNCHANGED <<currentTime, totalTime, mode, isRunning>>
                  ELSE currentTime' = p /\ totalTime' = p
       /\ InputKeydown(i, "Escape") =>
            /\ isEditMode' = FALSE
            /\ UNCHANGED <<currentTime, totalTime, mode, isRunning>>]_vars

(* C8 with a single edit input in the document: the claim as stated holds *)
C8_SingleInput ==
  [][Len(inputs) = 1 =>
       /\ InputKeydown(1, "Enter") =>
            LET p == parseTimeInput(inputs[1])
            IN /\ isEditMode' = FALSE
               /\ IF p = null
                  THEN UNCHANGED <<currentTime, totalTime, mode, isRunning>>
                  ELSE currentTime' = p /\ totalTime' = p
       /\ InputKeydown(1, "Escape") =>
            /\ isEditMode' = FALSE
            /\ UNCHANGED <<currentTime, totalTime, mode, isRunning>>]_vars

----------------------------------------------------------------------------
(* Claims about the codec, checked under CodecSpec.  The fields of the text *)
(* under test are known from its construction, not from the parser.        *)

NFields == Len(cIn.fields)
SecondsField == cIn.fields[NFields].value
MinutesField == IF NFields >= 2 THEN cIn.fields[NFields - 1].value ELSE 0
HoursField == IF NFields = 3 THEN cIn.fields[1].value ELSE 0
FieldsTotal == 3600 * HoursField + 60 * MinutesField + SecondsField

(* One or two digits, then two digits per further field *)
LengthsFit ==
  /\ NFields \in {2, 3}
  /\ Len(cIn.fields[1].digits) \in {1, 2}
  /\ \A j \in 2..NFields : Len(cIn.fields[j].digits) = 2

(* The text has one of the two forms once surrounding blanks are trimmed *)
HasForm == LengthsFit /\ cIn.deco \in {"none", "lead", "trail"}

Parsed == cIn.kind = "text" /\ cOut.fn = "parseTimeInput"
Committed == cIn.kind = "text" /\ cOut.fn = "exitEditMode"

(* C6 as stated: a text whose minutes or seconds field is 60 or more is    *)
(* rejected by the parser in both forms, and committing it leaves the time *)
(* as it was.                                                              *)
C6_RejectsFieldsOver59 ==
  (NFields \in {2, 3} /\ (MinutesField >= 60 \/ SecondsField >= 60)) =>
    /\ Parsed => cOut.num = null
    /\ Committed => currentTime = DefaultTime /\ totalTime = DefaultTime

(* C6 amended: seconds of 60 or more are rejected in both forms, minutes   *)
(* of 60 or more in the three-field form only; a two-field text with       *)
(* minutes 60..99 is accepted as 60*m + s, and committing it sets both     *)
(* times to that (60:00 gives 3600).                                       *)
C6_RejectsSecondsAndThreeFieldMinutes ==
  /\ (NFields \in {2, 3}
        /\ (SecondsField >= 60 \/ (NFields = 3 /\ MinutesField >= 60))) =>
       /\ Parsed => cOut.num = null
       /\ Committed => currentTime = DefaultTime /\ totalTime = DefaultTime
  /\ (NFields = 2 /\ LengthsFit /\ MinutesField >= 60 /\ SecondsField < 60) =>
       /\ (Parsed /\ HasForm) => cOut.num = 60 * MinutesField + SecondsField
       /\ Committed => /\ currentTime = 60 * MinutesField + SecondsField
                       /\ totalTime = 60 * MinutesField + SecondsField

(* C6 witness: 60:00 has been committed and the time is 3600 *)
C6_Witness ==
  /\ Committed
  /\ cIn.text = <<"6", "0", ":", "0", "0">>
  /\ currentTime = 3600 /\ totalTime = 3600

(* C7: an accepted text has one of the two forms and parses to             *)
(* 3600*h + 60*m + s, or 60*m + s; a text of neither form is rejected, and *)
(* so is a text whose total is 0.  The forms are matched after the parser  *)
(* has trimmed surrounding blanks.                                         *)
C7_ParseValue ==
  Parsed =>
    /\ cOut.num # null => HasForm /\ cOut.num = FieldsTotal
    /\ ~HasForm => cOut.num = null
    /\ (HasForm /\ FieldsTotal = 0) => cOut.num = null
    /\ cIn.text = <<"2", "5", ":", "0", "0">> => cOut.num = 1500

(* C7 witness: 01:30:00 has been parsed to 5400 *)
C7_Witness ==
  /\ Parsed
  /\ cIn.text = <<"0", "1", ":", "3", "0", ":", "0", "0">>
  /\ cOut.num = 5400

(* C9: for 0 < s < 100*3600 the text of the display, of the edit seed and  *)
(* of the preset formatter parses back to s.                               *)
C9_RoundTrip ==
  (cIn.kind = "secs" /\ cOut.parser # "none"
     /\ 0 < cIn.secs /\ cIn.secs < 100 * 3600) =>
    cOut.num = cIn.secs

(* C9 witness: the display of 5400 seconds has been parsed back to 5400 *)
C9_Witness ==
  /\ cIn.kind = "secs" /\ cIn.secs = 5400
  /\ cOut.fn = "updateDisplay" /\ cOut.parser = "parseTimeInput"
  /\ cOut.text = <<"0", "1", ":", "3", "0", ":", "0", "0">>
  /\ cOut.num = 5400

DisplayFields(s) ==
  IF s >= 3600 THEN <<s \div 3600, (s % 3600) \div 60, s % 60>>
  ELSE <<(s % 3600) \div 60, s % 60>>

(* text is the fields fs, two digits each, joined by colons *)
TwoDigitFields(text, fs) ==
  /\ Len(text) = 3 * Len(fs) - 1
  /\ \A j \in 1..Len(fs) :
       /\ fs[j] < 100
       /\ text[3 * j - 2] = Digits[(fs[j] \div 10) + 1]
       /\ text[3 * j - 1] = Digits[(fs[j] % 10) + 1]
       /\ j < Len(fs) => text[3 * j] = ":"

Displayed == cIn.kind = "secs" /\ cOut.fn = "updateDisplay"

(* C10 as stated: for every s the display is hours, minutes and seconds    *)
(* when s >= 3600 and minutes and seconds otherwise, every field two       *)
(* digits.                                                                 *)
C10_TwoDigitFields ==
  Displayed => TwoDigitFields(cOut.text, DisplayFields(cIn.secs))

(* C10 amended: so it is for s < 100*3600; from 100 hours on the hours     *)
(* field is the decimal number of hours, more than two digits wide,        *)
(* followed by two-digit minutes and seconds.                              *)
C10_TwoDigitFieldsBelow100Hours ==
  Displayed =>
    IF cIn.secs < 100 * 3600
    THEN TwoDigitFields(cOut.text, DisplayFields(cIn.secs))
    ELSE LET n == Len(cOut.text)
         IN /\ n > 8
            /\ cOut.text[1] # "0"
            /\ parseInt(SubSeq(cOut.text, 1, n - 6)) = cIn.secs \div 3600
            /\ cOut.text[n - 5] = ":"
            /\ TwoDigitFields(SubSeq(cOut.text, n - 4, n),
                              <<(cIn.secs % 3600) \div 60, cIn.secs % 60>>)

(* C10 witness: 180 is displayed as 03:00 *)
C10_Witness ==
  /\ Displayed
  /\ cIn.secs = 180
  /\ cOut.text = <<"0", "3", ":", "0", "0">>

----------------------------------------------------------------------------
(* Claims about the preset editor, checked under EditorSpec *)

(* C11: a delete on a list of one preset is refused and changes nothing;  *)
(* a confirmed delete on a longer list removes exactly the preset at the  *)
(* index and keeps the order of the others; the list of an open editor is *)
(* never empty, whatever adds and deletes are made.                       *)
C11_DeleteKeepsOne ==
  /\ [](editorOpen => Len(presets) >= 1)
  /\ [][\A index \in 0..(Len(presets) - 1) :
          DeletePreset(index, TRUE) =>
            IF Len(presets) = 1
            THEN UNCHANGED <<presets, presetInputs, store>>
            ELSE /\ Len(presets') = Len(presets) - 1
                 /\ \A j \in 1..Len(presets') :
                      presets'[j] = IF j <= index THEN presets[j]
                                    ELSE presets[j + 1]]_vars

(* C11 witness: the delete of the only preset left has been refused *)
C11_Witness ==
  /\ editorOpen
  /\ pEvent.name = "delete-refused"
  /\ Len(presets) = 1

(* An entry of the editor that is empty or does not parse *)
EntryInvalid(text) == trim(text) = <<>> \/ parseHHMMSS(text) = null

(* C12: a save with an empty or unparsable entry, or with no entry,       *)
(* changes neither the persisted record nor the tray menu and emits no    *)
(* event; any other save persists exactly the parsed entries, in the      *)
(* order of the inputs and each positive, in one step, and nothing else   *)
(* changes the persisted presets.                                         *)
C12_SaveAllOrNothing ==
  [][/\ SavePresets =>
          IF \/ Len(presetInputs) = 0
             \/ \E i \in 1..Len(presetInputs) : EntryInvalid(presetInputs[i])
          THEN /\ pEvent'.name = "save-rejected"
               /\ UNCHANGED <<store, presetEvents, trayMenu, saving>>
          ELSE /\ saving'.active
               /\ Len(saving'.newPresets) = Len(presetInputs)
               /\ \A i \in 1..Len(presetInputs) :
                    saving'.newPresets[i] = parseHHMMSS(presetInputs[i])
               /\ UNCHANGED <<store, presetEvents, trayMenu>>
     /\ SaveWrite =>
          /\ store'.hasPresets
          /\ store'.presets = saving.newPresets
          /\ \A i \in 1..Len(store'.presets) : store'.presets[i] > 0
          /\ presetEvents' = Append(presetEvents, saving.newPresets)
     /\ (store' # store) => SaveWrite]_vars

(* C12 witness: a save was rejected for a bad entry while a list saved   *)
(* before is persisted                                                   *)
C12_Witness ==
  /\ pEvent.name = "save-rejected"
  /\ store.hasPresets
  /\ \E i \in 1..Len(presetInputs) : EntryInvalid(presetInputs[i])

----------------------------------------------------------------------------
(* Claims about the settings, checked under PrefsSpec and PrefsLiveSpec *)

(* C13: a successful save emits one presets-updated event carrying the    *)
(* saved list, every emitted event is delivered, and its delivery         *)
(* rebuilds the tray menu with that list; a start rebuilds the menu with  *)
(* the stored presets, or 3/5/25 minutes when none are stored; a rejected *)
(* save rebuilds nothing.                                                 *)
C13_RebuildFollowsSave ==
  /\ [][/\ SaveWrite => presetEvents' = Append(presetEvents, store'.presets)
        /\ PresetsUpdated => trayMenu' = Head(presetEvents)
        /\ presetEvents' # presetEvents => SaveWrite \/ PresetsUpdated
        /\ Startup => trayMenu' = IF store.exists /\ store.hasPresets
                                  THEN store.presets
                                  ELSE <<180, 300, 1500>>
        /\ trayMenu' # trayMenu => Startup \/ PresetsUpdated]_vars
  /\ (Len(presetEvents) > 0) ~> (Len(presetEvents) = 0)

(* C13 witness: the event of a save has been delivered and the menu shows *)
(* the saved list                                                         *)
C13_Witness ==
  /\ pEvent.name = "none"
  /\ presetEvents = <<>>
  /\ store.hasPresets
  /\ trayMenu = store.presets
  /\ trayMenu # <<180, 300, 1500>>

(* C16: only a successful save changes the persisted presets: a theme     *)
(* change and a start leave them as they are.                             *)
C16_PresetsChangeOnlyBySave ==
  [][(store'.hasPresets # store.hasPresets \/ store'.presets # store.presets)
       => SaveWrite]_vars

(* C17: after a start the timer is a paused countdown, not editing, whose *)
(* current and total time are the seconds of the first preset loaded, 180 *)
(* when none is stored.                                                   *)
C17_StartupTargetFromFirstPreset ==
  pEvent.name = "startup" =>
    /\ mode = COUNTDOWN
    /\ ~isRunning
    /\ ~isEditMode
    /\ currentTime = Head(trayMenu)
    /\ totalTime = Head(trayMenu)

(* C20: a change-theme request whose id is not in the table leaves the    *)
(* colours of the document and the persisted record unchanged.            *)
C20_UnknownThemeChangesNothing ==
  [][\A id \in ThemeRequests \ DOMAIN themes :
       ChangeTheme(id) => UNCHANGED <<css, store>>]_vars

(* C20, for an unknown id that is no member of Object.prototype either *)
C20_UnknownPlainId ==
  [][\A id \in (ThemeRequests \ DOMAIN themes) \ ObjectPrototypeKeys :
       ChangeTheme(id) => UNCHANGED <<css, store>>]_vars

----------------------------------------------------------------------------
(* Further claims about the timer, checked under Spec *)

(* C14: toggleMode from Countdown sets the current time to 0 and keeps    *)
(* the total time; toggleMode from Stopwatch sets the current time to the *)
(* total time; two toggleMode calls in a row restore the mode and the     *)
(* total time, and from Countdown end with current = total = the target.  *)
C14_ToggleModeRoundTrip ==
  LET a == toggleMode(S)
      b == toggleMode(a)
  IN /\ a.mode # mode
     /\ a.totalTime = totalTime
     /\ a.currentTime = IF mode = COUNTDOWN THEN 0 ELSE totalTime
     /\ b.mode = mode
     /\ b.totalTime = totalTime
     /\ mode = COUNTDOWN => b.currentTime = totalTime

(* C14 witness: a countdown with target 2 has been toggled to Stopwatch *)
C14_Witness ==
  /\ mode = STOPWATCH
  /\ currentTime = 0
  /\ totalTime = 2
  /\ ~isRunning

(* C15: a reset, a set-time or a toggle-mode leaves no auto-clear         *)
(* pending, so at most one is pending at any time, and an auto-clear that *)
(* fires while the flag is set is the one the latest completion scheduled *)
C15_AutoClearCancelled ==
  /\ [][(\/ ClickReset
         \/ ToggleModeEvent
         \/ \E payload \in SetTimePayloads : SetTimeEvent(payload))
        => clearTimeouts' = 0]_vars
  /\ [](clearTimeouts <= 1)
  /\ [][(ClearTimeout /\ timerComplete) => clearTimeouts = 1]_vars

----------------------------------------------------------------------------
(* Claim about the shortcut keys, checked under KeySpec *)

(* C18: once a press of PageUp and its timeouts are over the timer runs   *)
(* exactly when it did not before the press, and once a press of PageDown *)
(* is over the timer stands reset.                                        *)
C18_OnePressOneTransition ==
  keyTimeouts = <<>> =>
    /\ press.key = "PageUp" => isRunning = ~press.before
    /\ press.key = "PageDown" =>
         /\ ~isRunning
         /\ currentTime = IF mode = COUNTDOWN THEN totalTime ELSE 0

----------------------------------------------------------------------------
(* Claim about the dynamic theme, checked under ColorSpec *)

(* The ten gradients, from the lowest band to the highest *)
BandColors ==
  << "linear-gradient(90deg, #7f1d1d 0%, #b91c1c 100%)",
     "linear-gradient(90deg, #991b1b 0%, #dc2626 100%)",
     "linear-gradient(90deg, #b91c1c 0%, #ef4444 100%)",
     "linear-gradient(90deg, #dc2626 0%, #f97316 100%)",
     "linear-gradient(90deg, #ea580c 0%, #fb923c 100%)",
     "linear-gradient(90deg, #ca8a04 0%, #fbbf24 100%)",
     "linear-gradient(90deg, #65a30d 0%, #a3e635 100%)",
     "linear-gradient(90deg, #22c55e 0%, #86efac 100%)",
     "linear-gradient(90deg, #16a34a 0%, #4ade80 100%)",
     "linear-gradient(90deg, #065f46 0%, #10b981 100%)" >>

(* The band of the progress current/total: k for k/10 < progress <=       *)
(* (k+1)/10, and 0 for every progress up to 1/10                          *)
BandOf(current, total) ==
  CHOOSE k \in 0..9 :
    \/ k = 0 /\ 10 * current <= total
    \/ k >= 1 /\ k * total < 10 * current /\ 10 * current <= (k + 1) * total

(* C19: with the dynamic theme the bar of a countdown has the colour of   *)
(* the band of its progress; the ten colours are distinct; so a boundary  *)
(* value k/10 has the colour of the lower band.                           *)
C19_DynamicColourBands ==
  /\ Cardinality({BandColors[i] : i \in 1..10}) = 10
  /\ 0 <= currentTime /\ currentTime <= totalTime /\ totalTime > 0
  /\ css.bar = BandColors[BandOf(currentTime, totalTime) + 1]

(* C19 witness: at progress 9/10 the bar has the colour of band 8 *)
C19_Witness ==
  /\ totalTime = 10
  /\ currentTime = 9
  /\ css.bar = "linear-gradient(90deg, #16a34a 0%, #4ade80 100%)"

----------------------------------------------------------------------------
(* Claim about the auto-clear, checked under AutoClearSpec *)

(* C28: a completion sets the flag, stops the timer and leaves an         *)
(* auto-clear pending; whatever events follow, the flag is cleared again; *)
(* the auto-clear clears it and changes nothing else of the timer, so     *)
(* with no event in between the timer is still stopped.                   *)
C28_CompletedFlagClears ==
  /\ [][notified' = 1 =>
          timerComplete' /\ ~isRunning' /\ clearTimeouts' >= 1]_vars
  /\ [][ClearTimeout =>
          /\ ~timerComplete'
          /\ UNCHANGED <<isRunning, mode, currentTime, totalTime,
                         isEditMode>>]_vars
  /\ timerComplete ~> (~timerComplete)

(* C28 witness: the auto-clear of a completion has fired with no event in *)
(* between: the countdown stands at 0, stopped, the flag cleared          *)
C28_Witness ==
  /\ mode = COUNTDOWN
  /\ currentTime = 0
  /\ totalTime = 2
  /\ ~isRunning
  /\ ~timerComplete
  /\ clearTimeouts = 0
  /\ run = NoRun

----------------------------------------------------------------------------
(* Claim about a countdown left to run, checked under ColorLiveSpec *)

(* C29: a running countdown that receives no event but its ticks runs     *)
(* exactly while its current time is positive, every tick takes 1 off the *)
(* current time, and from any current time c > 0 it comes to 0 and stops: *)
(* after c ticks.                                                         *)
C29_CountdownTerminates ==
  /\ [](mode = COUNTDOWN /\ (isRunning <=> currentTime > 0))
  /\ [][\A id \in liveIntervals :
          ColorTick(id) =>
            /\ currentTime > 0
            /\ currentTime' = currentTime - 1
            /\ isRunning' <=> currentTime' > 0]_vars
  /\ (isRunning /\ currentTime > 0) ~> (~isRunning /\ currentTime = 0)

(* C29 witness: a countdown of 20 seconds has come to 0 and stopped *)
C29_Witness ==
  /\ mode = COUNTDOWN
  /\ totalTime = 20
  /\ currentTime = 0
  /\ ~isRunning
  /\ liveIntervals = {}
  /\ timerComplete

----------------------------------------------------------------------------
(* Claims about the tray's events, checked under TraySpec *)

(* C21: after a start on a stored record whose theme id is not in the     *)
(* theme table, the colours of the document are those of the blue theme.  *)
C21_UnknownStoredThemeFallsBack ==
  (/\ pEvent.name = "startup"
   /\ store.exists
   /\ truthy(store.theme)
   /\ store.theme \notin DOMAIN themes)
    => css = [bar |-> themes["blue"].barColor,
              background |-> themes["blue"].backgroundColor,
              text |-> themes["blue"].textColor,
              themeTransparent |-> FALSE]

(* C27: a set-time event whose payload is 0 or negative changes neither  *)
(* the current nor the total time, and the total time is never 0 or less. *)
C27_SetTimeOnlyPositive ==
  /\ [][\A payload \in TrayPayloads :
          (payload <= 0 /\ SetTimeEvent(payload))
            => UNCHANGED <<currentTime, totalTime>>]_vars
  /\ [](totalTime > 0)

(* The preset list the listener of preset-selected reads *)
StoredList ==
  IF store.exists /\ store.hasPresets THEN store.presets
  ELSE <<180, 300, 1500>>

(* C30: preset-selected with an index i of the stored list, or of the     *)
(* 3/5/25-minute defaults when no list is stored, sets the time as        *)
(* setTime does to the seconds of entry i: the timer is stopped, not      *)
(* editing, in its mode, with current = total = those seconds; with an    *)
(* index outside the list the timer is left as it is.                     *)
C30_PresetSelectedSetsStoredTime ==
  /\ [][\A i \in 0..MaxPresets :
          PresetSelected(i) =>
            IF i < Len(StoredList)
            THEN /\ currentTime' = StoredList[i + 1]
                 /\ totalTime' = StoredList[i + 1]
                 /\ ~isRunning'
                 /\ liveIntervals' = {}
                 /\ ~isEditMode'
                 /\ mode' = mode
            ELSE UNCHANGED <<mode, isRunning, isEditMode, currentTime,
                             totalTime, liveIntervals>>]_vars
  /\ [](\A i \in {-1, Len(StoredList)} : presetSelected(S, store, i) = S)

(* C30 witness: the second entry, 45 seconds, of a stored list was chosen *)
C30_Witness ==
  /\ store.hasPresets
  /\ Len(store.presets) >= 2
  /\ store.presets[2] = 45
  /\ totalTime = 45
  /\ currentTime = 45
  /\ ~isRunning

----------------------------------------------------------------------------
(* Further claims about the codec, checked under CodecSpec *)

PresetParsed == cIn.kind = "text" /\ cOut.fn = "parseHHMMSS"

(* C22 as stated: the preset editor's parser accepts a text exactly when  *)
(* the inline parser does, and both give the same seconds; so a two-field *)
(* text is accepted by both.                                              *)
C22_ParsersAgree ==
  PresetParsed => cOut.num = parseTimeInput(cIn.text)

(* C22: on a text of three fields the preset editor's parser gives what   *)
(* the inline parser gives, the seconds or the rejection; every other     *)
(* text, a two-field text included, it rejects.                           *)
C22_PresetParserThreeFieldsOnly ==
  PresetParsed =>
    cOut.num = IF NFields = 3 THEN parseTimeInput(cIn.text) ELSE null

(* C22 witness: 25:00 is rejected by the preset editor's parser and is    *)
(* 1500 seconds for the inline parser                                     *)
C22_Witness ==
  /\ PresetParsed
  /\ NFields = 2
  /\ cOut.num = null
  /\ parseTimeInput(cIn.text) = 1500

Labelled == cIn.kind = "secs" /\ cOut.fn = "generateLabel"

(* The components of a label: a count and its noun *)
LabelComponents(seconds) ==
  << [count |-> seconds \div 3600, noun |-> <<"h", "o", "u", "r">>],
     [count |-> (seconds % 3600) \div 60,
      noun |-> <<"m", "i", "n", "u", "t", "e">>],
     [count |-> seconds % 60, noun |-> <<"s", "e", "c", "o", "n", "d">>] >>

(* A component in words: the count, a blank, the noun, plural unless 1 *)
ComponentText(c) ==
  toString(c.count) \o <<" ">> \o c.noun
    \o (IF c.count = 1 THEN <<>> ELSE <<"s">>)

RECURSIVE CommaJoined(_)
CommaJoined(cs) ==
  IF Len(cs) = 1 THEN ComponentText(cs[1])
  ELSE ComponentText(cs[1]) \o <<",", " ">> \o CommaJoined(Tail(cs))

(* C23: the label of seconds >= 0 lists, in the order hours, minutes,     *)
(* seconds, exactly the components that are not zero, each as its count   *)
(* and its noun, singular for 1 and plural otherwise, joined by a comma   *)
(* and a blank; when all three are zero the label is "0 seconds".         *)
C23_LabelListsNonZeroComponents ==
  Labelled =>
    LET nonZero == SelectSeq(LabelComponents(cIn.secs),
                             LAMBDA c : c.count # 0)
    IN cOut.text = IF Len(nonZero) = 0
                   THEN <<"0", " ", "s", "e", "c", "o", "n", "d", "s">>
                   ELSE CommaJoined(nonZero)

(* C23 witness: 3661 seconds are labelled 1 hour, 1 minute, 1 second *)
C23_Witness ==
  /\ Labelled
  /\ cIn.secs = 3661
  /\ cOut.text = <<"1", " ", "h", "o", "u", "r", ",", " ",
                   "1", " ", "m", "i", "n", "u", "t", "e", ",", " ",
                   "1", " ", "s", "e", "c", "o", "n", "d">>

----------------------------------------------------------------------------
(* Claims about toggleMode, resetTimer and setTime, checked under Spec:    *)
(* the handler is applied to every state the timer's events reach.         *)

(* C24: toggleMode, from any state, leaves the timer stopped with no      *)
(* repeating timer live, not editing and with no edit input and its text  *)
(* left, the mode flipped, the total time unchanged, and the current time *)
(* at the total time if the new mode is Countdown, else at 0.             *)
C24_ToggleModeFromAnyState ==
  LET r == toggleMode(S)
  IN /\ ~r.isRunning
     /\ r.intervalId = null
     /\ r.liveIntervals = {}
     /\ ~r.isEditMode
     /\ r.inputs = <<>>
     /\ r.mode = IF mode = COUNTDOWN THEN STOPWATCH ELSE COUNTDOWN
     /\ r.totalTime = totalTime
     /\ r.currentTime = IF r.mode = COUNTDOWN THEN totalTime ELSE 0

(* C24 with at most one edit input in the document, open only while      *)
(* editing: the claim as stated holds                                    *)
C24_SingleInput ==
  (Len(inputs) = IF isEditMode THEN 1 ELSE 0) => C24_ToggleModeFromAnyState

(* C25: resetTimer, from any state, leaves the timer stopped with no      *)
(* repeating timer live and the completion flag cleared, the current time *)
(* at the total time in Countdown and at 0 in Stopwatch, the mode and the *)
(* total time unchanged; a second reset changes nothing more.             *)
C25_ResetFromAnyState ==
  LET r == resetTimer(S)
  IN /\ ~r.isRunning
     /\ r.intervalId = null
     /\ r.liveIntervals = {}
     /\ ~r.timerComplete
     /\ r.currentTime = IF mode = COUNTDOWN THEN totalTime ELSE 0
     /\ r.mode = mode
     /\ r.totalTime = totalTime
     /\ resetTimer(r) = r

(* C25 witness: a reset has cleared the flag of a completion whose        *)
(* auto-clear is still pending, and put the countdown back at its target  *)
C25_Witness ==
  /\ ~timerComplete
  /\ clearTimeouts = 1
  /\ mode = COUNTDOWN
  /\ ~isRunning
  /\ totalTime = 2
  /\ currentTime = 2

(* C26: setTime(s) with s > 0, from any state, leaves the timer stopped   *)
(* with no repeating timer live, not editing, the current and the total   *)
(* time both s whatever the edit input held, the mode unchanged, and      *)
(* makes one request to bring the window to the foreground.               *)
C26_SetTimeFromAnyState ==
  \A seconds \in SetTimePayloads :
    LET r == setTime(S, seconds)
    IN /\ seconds > 0
       /\ ~r.isRunning
       /\ r.intervalId = null
       /\ r.liveIntervals = {}
       /\ ~r.isEditMode
       /\ r.currentTime = seconds
       /\ r.totalTime = seconds
       /\ r.mode = mode
       /\ r.shown = 1

(* C26 witness: set-time 2 has arrived in Stopwatch mode; the timer shows *)
(* 2 seconds and does not run or edit                                     *)
C26_Witness ==
  /\ mode = STOPWATCH
  /\ totalTime = 2
  /\ currentTime = 2
  /\ timerDisplay = displayText(2)
  /\ ~isRunning
  /\ ~isEditMode
  /\ notified = 0

----------------------------------------------------------------------------
(* Claim about the tray menu and the store, checked under PrefsSpec *)

(* C31: a selection of position i of the tray menu sets the current and   *)
(* the total time to the seconds the menu shows at position i, in every   *)
(* state: after a theme change that follows a save, and between a save's  *)
(* write of the store and the rebuild of the menu.                        *)
C31_SelectionAppliesShownPreset ==
  [][\A i \in 0..(MaxPresets - 1) :
       PresetSelected(i) =>
         /\ currentTime' = trayMenu[i + 1]
         /\ totalTime' = trayMenu[i + 1]]_vars

(* C31, when the store holds the list the menu shows *)
C31_WhenStoreAndMenuAgree ==
  [][\A i \in 0..(MaxPresets - 1) :
       (PresetSelected(i) /\ StoredList = trayMenu) =>
         /\ currentTime' = trayMenu[i + 1]
         /\ totalTime' = trayMenu[i + 1]]_vars

----------------------------------------------------------------------------
(* Claims about edits and pauses, checked under Spec *)

(* C32: exactly one edit input is in the document while the timer is in   *)
(* edit mode, and none while it is not.                                   *)
C32_OneInputIffEditing ==
  Len(inputs) = IF isEditMode THEN 1 ELSE 0

(* C33: pauseTimer changes nothing but the running flag and the interval  *)
(* and its handle; on a paused timer it changes nothing at all; a start   *)
(* after the pause runs from the same current time, in the same mode and  *)
(* with the same total time, and its first tick counts on from there.     *)
C33_PauseKeepsTheCount ==
  LET r == pauseTimer(S)
      q == startTimer(r)
  IN /\ r = [S EXCEPT !.isRunning = FALSE, !.intervalId = null,
                      !.liveIntervals = {}]
     /\ ~isRunning => r = S
     /\ pauseTimer(r) = r
     /\ q.isRunning
     /\ q.currentTime = currentTime
     /\ q.totalTime = totalTime
     /\ q.mode = mode
     /\ q.isEditMode = isEditMode
     /\ intervalCallback(q).currentTime =
          IF mode = COUNTDOWN THEN Max(0, currentTime - 1)
          ELSE currentTime + 1

(* C33 witness: a countdown from 180 was paused after one tick *)
C33_Witness ==
  /\ mode = COUNTDOWN
  /\ ~isRunning
  /\ intervalId = null
  /\ liveIntervals = {}
  /\ totalTime = 180
  /\ currentTime = 179
  /\ ~isEditMode
  /\ inputs = <<>>

(* Claim about the bar colour, checked under DynamicSpec *)

(* C34: once no asynchronous colour update is pending the bar colour is    *)
(* the one of the selected theme: the barColor of a fixed-colour theme,    *)
(* and, for the dynamic theme in Countdown mode, the band of the current   *)
(* progress (so never the literal "dynamic").                              *)
C34_BarMatchesTheme ==
  (colorUpdates = <<>> /\ store.exists) =>
    IF store.theme = "dynamic"
    THEN mode = COUNTDOWN =>
           css.bar = dynamicGradient(currentTime, totalTime)
    ELSE css.bar = themesGet(store.theme).barColor

(* C34, first half alone: with a fixed-colour theme selected and nothing   *)
(* pending, the bar colour is the theme's barColor.                        *)
C34_FixedThemeNotOverwritten ==
  (colorUpdates = <<>> /\ store.exists /\ store.theme # "dynamic") =>
    css.bar = themesGet(store.theme).barColor

(* C34, second half alone: with the dynamic theme selected in Countdown    *)
(* mode and nothing pending, the bar colour is not the literal "dynamic".  *)
C34_NeverTheSentinel ==
  (colorUpdates = <<>> /\ store.exists /\ store.theme = "dynamic"
     /\ mode = COUNTDOWN) =>
    css.bar # "dynamic"

====
